---- MODULE Spec2Model ----
(***************************************************************************)
(* Crowd detection: the alert manager (alert_manager.py) driven by the     *)
(* per-frame pipeline of CrowdDetector.process_frame (crowd_detector.py).  *)
(* Time is the wall clock time.time() in whole seconds.                    *)
(***************************************************************************)
EXTENDS Integers, Sequences, FiniteSets, TLC

\* ------------------------------------------------------------------ bounds

\* The wall clock reading when the session starts (seconds since the epoch;
\* any value larger than every interval of the program).
EpochStart == 1000

\* How long after EpochStart the clock is followed.
Horizon == 60

MaxTime == EpochStart + Horizon

\* The amounts of time that pass between two readings of the clock:
\* 20 s (less than the image interval and the cooldown, more than the log
\* interval), 59 s (one second short of the cooldown); 3 * 20 s is exactly
\* the cooldown.
TickSet == {20, 59}

\* ------------------------------------------------------- program constants

\* self.alert_cooldown = 60
alert_cooldown == 60

\* self.logging_config.get('log_interval', 5)
log_interval == 5

\* self.logging_config.get('image_interval', 30)
image_interval == 30

\* The crowd levels analysis_results['crowd_level'] takes.
CrowdLevels == {"low", "medium", "high", "critical"}

\* The keys of analysis_results['anomalies'], in the order the analyzer
\* inserts them.
AnomalyKeys == <<"count_anomaly", "density_anomaly", "sudden_change">>

\* The anomalies dictionaries: each key flagged or not.
AnomalyDicts == [{AnomalyKeys[i] : i \in 1..Len(AnomalyKeys)} -> BOOLEAN]

\* The anomalies dictionary with no key flagged.
no_anomalies == [k \in {AnomalyKeys[i] : i \in 1..Len(AnomalyKeys)} |-> FALSE]

\* The kinds of alert that own a cooldown timestamp.
AlertKinds == {"high", "critical", "anomaly"}

\* ------------------------------------------------------------------- state

VARIABLES
    now,                  \* the wall clock, time.time()
    pc,                   \* where process_frame stands
    current_alert_level,  \* self.current_alert_level
    last_alert_time,      \* self.last_alert_time: a dict, alert kind -> time
    last_log_time,        \* self.last_log_time
    last_image_save,      \* self.last_image_save
    console_output,       \* self.console_output
    email_enabled,        \* self.email_enabled
    email_config_complete, \* smtp_server and recipients are both configured
    sound_alerts,         \* self.sound_alerts
    log_enabled,          \* self.log_enabled
    save_images,          \* self.save_images
    analysis_results,     \* the frame's analysis handed to check_alerts
    current_time,         \* check_alerts' reading of the clock
    alert_info,           \* check_alerts' result dictionary
    email_result,         \* what _send_email_alert logged for the evaluation
    log_outcome,          \* what log_data did for the frame
    image_outcome,        \* what save_alert_image did for the frame
    caller,               \* who calls the alert manager: "direct" or "process_frame"
    returned,             \* history: when each kind was last returned as triggered
    log_format,           \* self.log_format
    log_file,             \* self.log_file: the day in the artifact's name
    files,                \* the log directory: day in the name -> contents
    log_fault,            \* the I/O fault met by the last append, or "none"
    instances,            \* how many AlertManager objects were constructed
    row_input,            \* the analysis and alert results handed to _log_csv
    line,                 \* the characters csv.writer wrote for them
    parsed,               \* csv.reader on its way through the line
    count_history,        \* CrowdAnalyzer.count_history
    density_history,      \* CrowdAnalyzer.density_history
    time_history,         \* CrowdAnalyzer.time_history
    smoothed_count,       \* CrowdAnalyzer.smoothed_count (fixed point)
    smoothed_density,     \* CrowdAnalyzer.smoothed_density (fixed point)
    analysis,             \* the result of the last analyze_crowd
    frame_log,            \* history: the inputs of every analyze_crowd so far
    frames_left,          \* how many more frames the session analyses
    spikes_left,          \* how many more frames may leave the baseline
    scene,                \* the session's calm frame and its frame period
    alert_thresholds,     \* CrowdAnalyzer.alert_thresholds
    classified,           \* the last classify_crowd_level call and its result
    frame_dimensions,     \* CrowdAnalyzer.frame_width, frame_height (0: None)
    density_method,       \* CrowdAnalyzer.density_method
    boxes,                \* the bounding boxes of the frame's detections
    density_call,         \* the last two results of calculate_density_score
    heatmap,              \* the result of generate_density_heatmap
    source_left,          \* how many more frames the video source delivers
    frames_read,          \* how many frames cap.read() has delivered
    capture_thread,       \* where _capture_frames stands, and its frame
    frame_queue,          \* VideoProcessor.frame_queue
    vp_frame_count,       \* VideoProcessor.frame_count
    main_loop,            \* where the consumer of the queue stands, and its frame
    received,             \* history: the frames run has processed
    detector,             \* the CrowdDetector: its fields set by __init__, start, run
    video_processor,      \* the VideoProcessor: running, cap, video_writer
    run_log               \* history: how run was left, what it sent, the keys left

vars == <<now, pc, current_alert_level, last_alert_time, last_log_time,
          last_image_save, console_output, email_enabled, email_config_complete,
          sound_alerts, log_enabled, save_images, analysis_results,
          current_time, alert_info, email_result, log_outcome, image_outcome,
          caller, returned, log_format, log_file, files, log_fault,
          instances, row_input, line, parsed, count_history, density_history,
          time_history, smoothed_count, smoothed_density, analysis, frame_log,
          frames_left, spikes_left, scene, alert_thresholds, classified,
          frame_dimensions, density_method, boxes, density_call,
          heatmap, source_left, frames_read, capture_thread, frame_queue,
          vp_frame_count, main_loop, received, detector, video_processor,
          run_log>>

\* The log artifacts and the manager's handle on them.
log_vars == <<log_format, log_file, files, log_fault, instances>>

\* One row on its way through csv.writer and csv.reader.
csv_vars == <<row_input, line, parsed>>

\* The state of the CrowdAnalyzer and of the session that drives it.
analyzer_vars == <<count_history, density_history, time_history,
                   smoothed_count, smoothed_density, analysis, frame_log,
                   frames_left, spikes_left, scene, alert_thresholds,
                   classified>>

\* The boxes of a frame and what the analyzer makes of them.
box_vars == <<frame_dimensions, density_method, boxes, density_call,
             heatmap>>

\* The video source, the capture thread, the frame queue and the main
\* loop that consumes it.
video_vars == <<source_left, frames_read, capture_thread, frame_queue,
                vp_frame_count, main_loop, received>>

\* The CrowdDetector, its VideoProcessor and the course of its run.
detector_vars == <<detector, video_processor, run_log>>

\* What the alert manager's logging leaves alone.
non_manager_vars == <<csv_vars, analyzer_vars, box_vars, video_vars,
                      detector_vars>>

\* What the alert manager's evaluation and dispatch leave alone.
other_vars == <<log_vars, non_manager_vars>>

config_vars == <<console_output, email_enabled, email_config_complete,
                 sound_alerts, log_enabled, save_images>>

\* The empty dictionary.
EmptyDict == [k \in {} |-> 0]

\* d[k] = v, as a Python dict assignment.
DictSet(d, k, v) == [x \in (DOMAIN d) \cup {k} |-> IF x = k THEN v ELSE d[x]]

\* ----------------------------------------------------------- alert checks

\* str.title() of a crowd level.
title(s) ==
    CASE s = "high" -> "High"
      [] s = "critical" -> "Critical"
      [] s = "medium" -> "Medium"
      [] s = "low" -> "Low"
      [] OTHER -> s

\* str.replace('_', ' ') of an anomaly key.
replace_underscore(s) ==
    CASE s = "count_anomaly" -> "count anomaly"
      [] s = "density_anomaly" -> "density anomaly"
      [] s = "sudden_change" -> "sudden change"
      [] OTHER -> s

\* _check_alert_cooldown with a fault: the boundary is exclusive.
_check_alert_cooldown_strict(lat, alert_level, t) ==
    IF alert_level \notin DOMAIN lat
    THEN TRUE
    ELSE t - lat[alert_level] > alert_cooldown

\* _check_alert_cooldown with a fault: the cooldown is never enforced.
_check_alert_cooldown_always(lat, alert_level, t) == TRUE

\* AlertManager._check_alert_cooldown, on the dictionary lat.
_check_alert_cooldown(lat, alert_level, t) ==
    IF alert_level \notin DOMAIN lat
    THEN TRUE
    ELSE t - lat[alert_level] >= alert_cooldown

\* _check_threshold_alerts with a fault: every level above low alerts.
_check_threshold_alerts_medium(lat, crowd_level, t) ==
    LET info == [alert_triggered |-> FALSE, alert_level |-> "none",
                 alert_type |-> "threshold", message |-> <<>>,
                 actions_taken |-> <<>>]
    IN  IF crowd_level \in {"medium", "high", "critical"}
           /\ _check_alert_cooldown(lat, crowd_level, t)
        THEN [info |-> [info EXCEPT !.alert_triggered = TRUE,
                                    !.alert_level = crowd_level,
                                    !.message = <<title(crowd_level),
                                                  "crowd density detected">>],
              lat |-> DictSet(lat, crowd_level, t)]
        ELSE [info |-> info, lat |-> lat]

\* _check_threshold_alerts with a fault: the timestamp is not stamped.
_check_threshold_alerts_nostamp(lat, crowd_level, t) ==
    LET info == [alert_triggered |-> FALSE, alert_level |-> "none",
                 alert_type |-> "threshold", message |-> <<>>,
                 actions_taken |-> <<>>]
    IN  IF crowd_level \in {"high", "critical"}
           /\ _check_alert_cooldown(lat, crowd_level, t)
        THEN [info |-> [info EXCEPT !.alert_triggered = TRUE,
                                    !.alert_level = crowd_level,
                                    !.message = <<title(crowd_level),
                                                  "crowd density detected">>],
              lat |-> lat]
        ELSE [info |-> info, lat |-> lat]

\* AlertManager._check_threshold_alerts: the alert dictionary it returns and
\* self.last_alert_time as it leaves it.
_check_threshold_alerts(lat, crowd_level, t) ==
    LET info == [alert_triggered |-> FALSE, alert_level |-> "none",
                 alert_type |-> "threshold", message |-> <<>>,
                 actions_taken |-> <<>>]
    IN  IF crowd_level \in {"high", "critical"}
           /\ _check_alert_cooldown(lat, crowd_level, t)
        THEN [info |-> [info EXCEPT !.alert_triggered = TRUE,
                                    !.alert_level = crowd_level,
                                    !.message = <<title(crowd_level),
                                                  "crowd density detected">>],
              lat |-> DictSet(lat, crowd_level, t)]
        ELSE [info |-> info, lat |-> lat]

\* The list detected_anomalies of _check_anomaly_alerts: the flagged keys of
\* the first n entries, underscores replaced, in dictionary order.
RECURSIVE detected_anomalies(_, _)
detected_anomalies(anomalies, n) ==
    IF n = 0
    THEN <<>>
    ELSE LET rest == detected_anomalies(anomalies, n - 1)
         IN  IF anomalies[AnomalyKeys[n]]
             THEN Append(rest, replace_underscore(AnomalyKeys[n]))
             ELSE rest

\* AlertManager._check_anomaly_alerts: the alert dictionary it returns and
\* self.last_alert_time as it leaves it.
_check_anomaly_alerts(lat, anomalies, t) ==
    LET info == [alert_triggered |-> FALSE, alert_level |-> "anomaly",
                 alert_type |-> "anomaly", message |-> <<>>,
                 actions_taken |-> <<>>]
        detected == detected_anomalies(anomalies, Len(AnomalyKeys))
    IN  IF detected # <<>> /\ _check_alert_cooldown(lat, "anomaly", t)
        THEN [info |-> [info EXCEPT !.alert_triggered = TRUE,
                                    !.message = <<"Anomaly detected">> \o detected],
              lat |-> DictSet(lat, "anomaly", t)]
        ELSE [info |-> info, lat |-> lat]

\* The alert_info dictionary check_alerts starts from.
alert_info_default ==
    [alert_triggered |-> FALSE, alert_level |-> "none", alert_type |-> "none",
     message |-> <<>>, actions_taken |-> <<>>]

\* check_alerts with a fault: the anomaly alert is preferred.
primary_alert_anomaly_first(threshold_alert, anomaly_alert) ==
    IF anomaly_alert.alert_triggered
    THEN anomaly_alert
    ELSE IF threshold_alert.alert_triggered
         THEN threshold_alert
         ELSE alert_info_default

\* The primary alert of check_alerts: alert_info updated with the threshold
\* alert if that triggered, else with the anomaly alert if that triggered.
primary_alert(threshold_alert, anomaly_alert) ==
    IF threshold_alert.alert_triggered
    THEN threshold_alert
    ELSE IF anomaly_alert.alert_triggered
         THEN anomaly_alert
         ELSE alert_info_default

\* ------------------------------------------------------------- dispatch

\* _send_email_alert with a fault: a transport error is not caught.
_send_email_alert_uncaught(config_complete, smtp_ok) ==
    IF ~config_complete
    THEN "incomplete"
    ELSE IF smtp_ok THEN "sent" ELSE "raised"

\* AlertManager._send_email_alert, by what it logs: "incomplete" (warning,
\* returns False), "sent" (returns True), "error" (the transport raised, the
\* exception was caught, returns False). "raised" would be an exception
\* leaving the method; the try block spans the whole body.
_send_email_alert(config_complete, smtp_ok) ==
    IF ~config_complete
    THEN "incomplete"
    ELSE IF smtp_ok THEN "sent" ELSE "error"

\* The list actions_taken built by _execute_alert_actions; send_result is
\* what _send_email_alert did (it returned True only for "sent").
actions_taken_list(console, email, send_result, sound) ==
    (IF console THEN <<"console_output">> ELSE <<>>)
    \o (IF email
        THEN (IF send_result = "sent"
              THEN <<"email_sent">>
              ELSE <<"email_failed">>)
        ELSE <<>>)
    \o (IF sound THEN <<"sound_alert">> ELSE <<>>)

\* ------------------------------------------------------------ log artifacts

\* How long after the session starts the calendar day changes.
SecondsToMidnight == 40

Midnight == EpochStart + SecondsToMidnight

\* How many AlertManager objects are constructed (the first one, then
\* restarts on the same log directory).
MaxInstances == 2

\* datetime.now().strftime('%Y%m%d') at clock reading t: the calendar day,
\* counted from the day the session starts.
strftime_Ymd(t) == IF t < Midnight THEN 0 ELSE 1

\* self.log_file of a manager whose _setup_log_files returned at once.
NoFile == -1

\* The values of log_format that log_data writes for.
LogFormats == {"csv", "json"}

\* The rows of a log artifact: the CSV header, a record appended at clock
\* reading t (its first column), or what a write that failed half way left
\* behind.  session tells which manager wrote the row.
header_row == [kind |-> "header", timestamp |-> 0, session |-> 0]

data_row(t, session) == [kind |-> "data", timestamp |-> t, session |-> session]

partial_row(t, session) ==
    [kind |-> "partial", timestamp |-> t, session |-> session]

\* A new artifact: the header alone (csv) or the empty array (json).
new_file(format) ==
    [valid |-> TRUE,
     rows |-> IF format = "csv" THEN <<header_row>> ELSE <<>>]

\* _setup_log_files with a fault: the header is written whether the file
\* exists or not.
_setup_log_files_always_header(fs, enabled, format, day) ==
    IF ~enabled
    THEN [files |-> fs, log_file |-> NoFile]
    ELSE [files |->
             IF day \in DOMAIN fs
             THEN [fs EXCEPT ![day].rows =
                      IF format = "csv" THEN Append(@, header_row) ELSE @]
             ELSE DictSet(fs, day, new_file(format)),
          log_file |-> day]

\* AlertManager._setup_log_files on the log directory fs on calendar day
\* day: nothing when logging is disabled; otherwise log_file names the
\* day's artifact, which is created (header or empty array) if it does not
\* exist.
_setup_log_files(fs, enabled, format, day) ==
    IF ~enabled
    THEN [files |-> fs, log_file |-> NoFile]
    ELSE [files |-> IF day \in DOMAIN fs
                    THEN fs
                    ELSE DictSet(fs, day, new_file(format)),
          log_file |-> day]

\* The I/O faults an append can meet: none, the file cannot be opened for
\* writing, cannot be read (json only), or the write fails half way.
LogFaults(format) ==
    IF format = "csv" THEN {"none", "open", "write"}
    ELSE {"none", "read", "open", "write"}

\* AlertManager._log_csv: the row is appended to the file; an exception is
\* caught and logged.
_log_csv(file, t, session, fault) ==
    CASE fault = "none" ->
            [file |-> [file EXCEPT !.rows = Append(@, data_row(t, session))],
             outcome |-> "written"]
      [] fault = "write" ->
            [file |-> [file EXCEPT !.rows = Append(@, partial_row(t, session))],
             outcome |-> "failed"]
      [] OTHER -> [file |-> file, outcome |-> "failed"]

\* AlertManager._log_json: the array is read, the entry appended and the
\* file rewritten from its start; an exception is caught and logged.  A
\* file that is not a JSON array cannot be read; a write that fails half
\* way leaves the truncated file behind.
_log_json(file, t, session, fault) ==
    IF ~file.valid \/ fault \in {"read", "open"}
    THEN [file |-> file, outcome |-> "failed"]
    ELSE IF fault = "write"
         THEN [file |-> [valid |-> FALSE, rows |-> <<>>], outcome |-> "failed"]
         ELSE [file |-> [file EXCEPT !.rows = Append(@, data_row(t, session))],
               outcome |-> "written"]

\* log_data's test with a fault: every call of an enabled logger fires.
log_due_always(enabled, t, last) == enabled

\* log_data fires: logging is enabled and the call is not less than
\* log_interval after the last one that fired.
log_due(enabled, t, last) == enabled /\ ~(t - last < log_interval)

\* save_alert_image's test with a fault: the log interval is used.
image_due_log_interval(t, last) == ~(t - last < log_interval)

\* save_alert_image goes on to write: the call is not less than
\* image_interval after the last image saved.
image_due(t, last) == ~(t - last < image_interval)

\* ------------------------------------------------------------ the CSV row
\* A string is the sequence of its characters; a run of characters that are
\* neither a digit nor special to the csv module stands as one entry.

Digits == <<"0", "1", "2", "3", "4", "5", "6", "7", "8", "9">>

\* str(n) of a natural number.
RECURSIVE str_int(_)
str_int(n) ==
    IF n < 10 THEN <<Digits[n + 1]>>
    ELSE Append(str_int(n \div 10), Digits[(n % 10) + 1])

\* int(s) of a string of decimal digits.
RECURSIVE int_str(_)
int_str(s) ==
    LET value(c) == CHOOSE d \in 0..9 : Digits[d + 1] = c
    IN  IF Len(s) = 1 THEN value(s[1])
        ELSE 10 * int_str(SubSeq(s, 1, Len(s) - 1)) + value(s[Len(s)])

\* str.join: the strings of a list with sep between them.
RECURSIVE join(_, _)
join(sep, strings) ==
    IF Len(strings) = 0 THEN <<>>
    ELSE IF Len(strings) = 1 THEN strings[1]
    ELSE strings[1] \o sep \o join(sep, Tail(strings))

\* json.dumps of the anomalies dictionary, keys in insertion order.
json_dumps(anomalies) ==
    LET item(i) == <<"\"", AnomalyKeys[i], "\"", ":", " ",
                     IF anomalies[AnomalyKeys[i]] THEN "true" ELSE "false">>
    IN  <<"{">> \o join(<<",", " ">>, [i \in 1..Len(AnomalyKeys) |-> item(i)])
        \o <<"}">>

\* The list _log_csv hands to writer.writerow, each value as csv.writer
\* converts it with str(): analysis_results holds person_count, crowd_level
\* and anomalies, its other keys are absent and take their defaults;
\* alert_level is 'none' when no alert info is passed.
log_row(results, alert, timestamp) ==
    <<str_int(timestamp) \o <<".", "0">>,
      <<"%Y-%m-%d", " ", "%H:%M:%S">>,
      str_int(results.person_count),
      <<"0">>, <<"0">>, <<"0">>,
      results.crowd_level,
      IF alert.passed THEN alert.alert_level ELSE <<"none">>,
      <<"0">>, <<"0">>, <<"0">>, <<"0">>, <<"0">>,
      <<"unknown">>, <<"unknown">>,
      json_dumps(results.anomalies)>>

\* The characters that make csv.writer quote a field (QUOTE_MINIMAL).
csv_special == {",", "\"", "\r", "\n"}

\* A field with every quote character doubled.
RECURSIVE double_quotes(_)
double_quotes(field) ==
    IF field = <<>> THEN <<>>
    ELSE (IF Head(field) = "\"" THEN <<"\"", "\"">> ELSE <<Head(field)>>)
         \o double_quotes(Tail(field))

\* csv_field with a fault: no field is quoted.
csv_field_unquoted(field) == field

\* A field as csv.writer writes it: quoted, its quotes doubled, when it
\* holds a special character.
csv_field(field) ==
    IF \E i \in DOMAIN field : field[i] \in csv_special
    THEN <<"\"">> \o double_quotes(field) \o <<"\"">>
    ELSE field

\* csv.writer.writerow: the fields separated by commas, then the line
\* terminator.
writerow(fields) ==
    join(<<",">>, [i \in DOMAIN fields |-> csv_field(fields[i])])
    \o <<"\r", "\n">>

\* csv.reader before it has read a character: at is the position of the
\* next character, state where the parser stands, field the characters of
\* the field so far, fields the fields already complete.
new_reader ==
    [at |-> 1, state |-> "start_field", field |-> <<>>, fields |-> <<>>]

\* csv.reader takes the next character of chars: a quote opens a quoted
\* field, a doubled quote inside one stands for a quote, a comma outside
\* quotes ends the field, a line terminator outside quotes (or the end of
\* the characters) ends the row.
reader_step(chars, r) ==
    LET c == chars[r.at]
        end_row == [r EXCEPT !.state = "done",
                             !.fields = Append(r.fields, r.field),
                             !.field = <<>>]
        next(state, field) ==
            [r EXCEPT !.at = r.at + 1, !.state = state, !.field = field]
    IN  IF r.at > Len(chars) THEN end_row
        ELSE CASE r.state = "in_quoted" ->
                    IF c = "\""
                    THEN next("quote_in_quoted", r.field)
                    ELSE next("in_quoted", Append(r.field, c))
              [] r.state = "quote_in_quoted" /\ c = "\"" ->
                    next("in_quoted", Append(r.field, c))
              [] r.state = "start_field" /\ c = "\"" ->
                    next("in_quoted", r.field)
              [] OTHER ->
                    IF c = ","
                    THEN [r EXCEPT !.at = r.at + 1, !.state = "start_field",
                                   !.fields = Append(r.fields, r.field),
                                   !.field = <<>>]
                    ELSE IF c \in {"\r", "\n"}
                         THEN end_row
                         ELSE next("in_field", Append(r.field, c))

\* The person counts, crowd levels and alert results handed to _log_csv:
\* the values the pipeline produces and strings that hold the characters
\* special to the csv module.
PersonCounts == {0, 7, 75, 120}

CsvStrings ==
    {<<"low">>, <<"medium">>, <<"high">>, <<"critical">>, <<"unknown">>,
     <<"a", ",", "b">>, <<"\"", "a", "\"">>, <<"a", "\n", "b">>, <<>>}

CsvAlerts ==
    {[passed |-> FALSE, alert_level |-> <<>>]}
    \cup {[passed |-> TRUE, alert_level |-> <<l>>] :
          l \in {"none", "high", "critical", "anomaly"}}

RowInputs ==
    [analysis_results :
        [person_count : PersonCounts, crowd_level : CsvStrings,
         anomalies : {d \in AnomalyDicts :
                        \A k \in DOMAIN d : d[k] = d["count_anomaly"]}],
     alert_info : CsvAlerts]

\* No row is on its way.
IdleCsv ==
    /\ row_input = [analysis_results |->
                        [person_count |-> 0, crowd_level |-> <<"low">>,
                         anomalies |-> no_anomalies],
                    alert_info |-> [passed |-> FALSE, alert_level |-> <<>>]]
    /\ line = <<>>
    /\ parsed = new_reader

\* --------------------------------------------------------- crowd analyzer
\* Counts are whole persons, density scores whole tenths; the smoothed
\* values are fixed point numbers, FixedPoint to the unit, rounded up.

\* deque(maxlen=100)
maxlen == 100

\* self.smoothing_factor = 0.3, in tenths
smoothing_factor_tenths == 3

\* 'low': 20, 'medium': 50, 'high': 100
threshold_low == 20

threshold_medium == 50

threshold_high == 100

\* if len(self.count_history) < 20 ... [-20:]
anomaly_samples == 20

\* count_z_score > 2
z_limit == 2

\* max(10, count_mean * 0.3): the floor in persons, the share in tenths
sudden_change_floor == 10

sudden_change_tenths == 3

FixedPoint == 1000 * 1000

\* deque.append with a fault: nothing is ever evicted.
deque_append_unbounded(d, x) == Append(d, x)

\* deque.append on a deque of maxlen entries at most: the oldest entry is
\* evicted when the deque is full.
deque_append(d, x) ==
    IF Len(d) < maxlen THEN Append(d, x) ELSE Append(Tail(d), x)

\* alpha * raw + (1 - alpha) * previous on fixed point numbers.
ema(raw, previous) ==
    (smoothing_factor_tenths * raw
     + (10 - smoothing_factor_tenths) * previous + 9) \div 10

\* CrowdAnalyzer._update_smoothed_values: while smoothed_count is 0 both
\* smoothed values are set to the raw ones, otherwise both are smoothed.
_update_smoothed_values(sc, sd, current_count, current_density) ==
    IF sc = 0
    THEN [smoothed_count |-> current_count * FixedPoint,
          smoothed_density |-> current_density * FixedPoint]
    ELSE [smoothed_count |-> ema(current_count * FixedPoint, sc),
          smoothed_density |-> ema(current_density * FixedPoint, sd)]

\* The keys of the thresholds dictionary.
ThresholdKeys == {"low", "medium", "high"}

\* The thresholds config.get returns when the configuration has none.
default_thresholds ==
    [k \in ThresholdKeys |->
        CASE k = "low" -> threshold_low
          [] k = "medium" -> threshold_medium
          [] k = "high" -> threshold_high]

\* classify_crowd_level with a fault: a count equal to a bound falls in
\* the lower bucket.
classify_crowd_level_closed(thresholds, person_count) ==
    IF "low" \notin DOMAIN thresholds THEN "KeyError"
    ELSE IF person_count <= thresholds["low"] * FixedPoint THEN "low"
    ELSE IF "medium" \notin DOMAIN thresholds THEN "KeyError"
    ELSE IF person_count <= thresholds["medium"] * FixedPoint THEN "medium"
    ELSE IF "high" \notin DOMAIN thresholds THEN "KeyError"
    ELSE IF person_count <= thresholds["high"] * FixedPoint THEN "high"
    ELSE "critical"

\* classify_crowd_level with a fault: the comparisons are made from the
\* highest bound down.
classify_crowd_level_top_down(thresholds, person_count) ==
    IF "high" \notin DOMAIN thresholds THEN "KeyError"
    ELSE IF person_count >= thresholds["high"] * FixedPoint THEN "critical"
    ELSE IF "medium" \notin DOMAIN thresholds THEN "KeyError"
    ELSE IF person_count >= thresholds["medium"] * FixedPoint THEN "high"
    ELSE IF "low" \notin DOMAIN thresholds THEN "KeyError"
    ELSE IF person_count >= thresholds["low"] * FixedPoint THEN "medium"
    ELSE "low"

\* CrowdAnalyzer.classify_crowd_level of a fixed point count under the
\* thresholds dictionary (bounds in whole persons): the first of the
\* bounds low, medium, high that the count is below decides; looking up a
\* bound the dictionary lacks raises KeyError.
classify_crowd_level(thresholds, person_count) ==
    IF "low" \notin DOMAIN thresholds THEN "KeyError"
    ELSE IF person_count < thresholds["low"] * FixedPoint THEN "low"
    ELSE IF "medium" \notin DOMAIN thresholds THEN "KeyError"
    ELSE IF person_count < thresholds["medium"] * FixedPoint THEN "medium"
    ELSE IF "high" \notin DOMAIN thresholds THEN "KeyError"
    ELSE IF person_count < thresholds["high"] * FixedPoint THEN "high"
    ELSE "critical"

\* sum(xs)
RECURSIVE sum(_)
sum(xs) == IF xs = <<>> THEN 0 ELSE Head(xs) + sum(Tail(xs))

\* list(history)[-k:]
recent(history, k) ==
    IF Len(history) <= k THEN history
    ELSE SubSeq(history, Len(history) - k + 1, Len(history))

\* The squares of the distances of the samples from their mean, summed,
\* times n^2 (n the number of samples): n * n^2 * np.std(xs)^2.
deviations_squared(xs) ==
    LET n == Len(xs)
        S == sum(xs)
    IN  sum([i \in 1..n |-> (n * xs[i] - S) * (n * xs[i] - S)])

\* z_exceeds with a fault: a z-score of exactly z_limit is flagged too.
z_reaches(xs, current) ==
    LET n == Len(xs)
        S == sum(xs)
        D == deviations_squared(xs)
    IN  D > 0 /\ n * (n * current - S) * (n * current - S)
                 >= z_limit * z_limit * D

\* np.std(xs) > 0 and abs(current - np.mean(xs)) / np.std(xs) > 2, in
\* whole numbers: with S the sum and D the summed squares above, the mean
\* is S / n, the deviation sqrt(D / n^3), so the z-score exceeds 2 when
\* n * (n * current - S)^2 > 4 * D.
z_exceeds(xs, current) ==
    LET n == Len(xs)
        S == sum(xs)
        D == deviations_squared(xs)
    IN  D > 0 /\ n * (n * current - S) * (n * current - S)
                 > z_limit * z_limit * D

\* abs(a - b)
abs_diff(a, b) == IF a >= b THEN a - b ELSE b - a

\* previous_count with a fault: the sample of the current frame itself.
previous_count_own_sample(counts) == counts[Len(counts)]

\* self.count_history[-2]: the count of the frame before the current one
\* (the current frame is already appended).
previous_count(counts) == counts[Len(counts) - 1]

\* The anomalies of detect_anomalies when min_samples samples are asked
\* for.
anomaly_flags(counts, densities, count, density, min_samples) ==
    IF Len(counts) < min_samples
    THEN no_anomalies
    ELSE
    LET recent_counts == recent(counts, anomaly_samples)
        recent_densities == recent(densities, anomaly_samples)
        n == Len(recent_counts)
        count_change == abs_diff(count, previous_count(counts))
    IN  [k \in DOMAIN no_anomalies |->
            CASE k = "count_anomaly" -> z_exceeds(recent_counts, count)
              [] k = "density_anomaly" ->
                    z_exceeds(recent_densities, density)
              [] k = "sudden_change" ->
                    /\ Len(counts) > 1
                    /\ count_change > sudden_change_floor
                    /\ 10 * n * count_change
                       > sudden_change_tenths * sum(recent_counts)]

\* detect_anomalies with a fault: two samples are enough.
detect_anomalies_two_samples(counts, densities, current_count, current_density) ==
    anomaly_flags(counts, densities, current_count, current_density, 2)

\* CrowdAnalyzer.detect_anomalies on the histories (the current frame
\* already appended): nothing is flagged with fewer than 20 samples;
\* otherwise the z-scores of the current count and density among the 20
\* most recent samples and the change from the previous count are tested.
detect_anomalies(counts, densities, current_count, current_density) ==
    anomaly_flags(counts, densities, current_count, current_density,
                  anomaly_samples)

\* if len(self.count_history) < 10 ... [-10:]
trend_samples == 10

\* rate > 0.5, rate < -0.5: in tenths of a unit per second
trend_limit_tenths == 5

\* A rate of change is the fraction num / den of whole numbers with den
\* positive, or not a number.
zero_rate == [num |-> 0, den |-> 1, nan |-> FALSE]

nan_rate == [num |-> 0, den |-> 1, nan |-> TRUE]

\* CrowdAnalyzer._calculate_rate_of_change: the slope of the least squares
\* line of the values (of which there are unit to the unit of the rate)
\* over the times since the first. With n samples np.std(x)^2 is
\* var_x / n^2 and np.cov is cov / n^2, so np.corrcoef * std(y) / std(x)
\* is cov / var_x; when the values are all equal np.corrcoef divides 0 by
\* 0 and the slope is not a number.
_calculate_rate_of_change(values, times, unit) ==
    LET n == Len(values)
        x == [i \in 1..n |-> times[i] - times[1]]
        Sx == sum(x)
        Sy == sum(values)
        var_x == n * sum([i \in 1..n |-> x[i] * x[i]]) - Sx * Sx
        var_y == n * sum([i \in 1..n |-> values[i] * values[i]]) - Sy * Sy
        cov == n * sum([i \in 1..n |-> x[i] * values[i]]) - Sx * Sy
    IN  IF n < 2 THEN zero_rate
        ELSE IF var_x > 0
        THEN IF var_y = 0 THEN nan_rate
             ELSE [num |-> cov, den |-> unit * var_x, nan |-> FALSE]
        ELSE zero_rate

\* _classify_trend with a fault: a rate of exactly 0.5 or -0.5 is a trend
\* too.
_classify_trend_inclusive(rate) ==
    IF ~rate.nan /\ 10 * rate.num >= trend_limit_tenths * rate.den
    THEN "increasing"
    ELSE IF ~rate.nan /\ 10 * rate.num <= -trend_limit_tenths * rate.den
    THEN "decreasing"
    ELSE "stable"

\* CrowdAnalyzer._classify_trend; no comparison with a rate that is not a
\* number holds.
_classify_trend(rate) ==
    IF ~rate.nan /\ 10 * rate.num > trend_limit_tenths * rate.den
    THEN "increasing"
    ELSE IF ~rate.nan /\ 10 * rate.num < -trend_limit_tenths * rate.den
    THEN "decreasing"
    ELSE "stable"

\* The trends of a history of too few samples.
no_trends ==
    [count_trend |-> "stable", count_rate |-> zero_rate,
     density_trend |-> "stable", density_rate |-> zero_rate]

\* The trends of calculate_trends when the window most recent samples are
\* looked at (densities are whole tenths, 10 to the unit).
trends_over(counts, densities, times, window) ==
    IF Len(counts) < trend_samples
    THEN no_trends
    ELSE
    LET recent_times == recent(times, window)
        count_rate == _calculate_rate_of_change(recent(counts, window),
                                                recent_times, 1)
        density_rate == _calculate_rate_of_change(recent(densities, window),
                                                  recent_times, 10)
    IN  [count_trend |-> _classify_trend(count_rate),
         count_rate |-> count_rate,
         density_trend |-> _classify_trend(density_rate),
         density_rate |-> density_rate]

\* calculate_trends with a fault: the 20 most recent samples are looked
\* at.
calculate_trends_twenty_samples(counts, densities, times) ==
    trends_over(counts, densities, times, anomaly_samples)

\* CrowdAnalyzer.calculate_trends on the histories: stable at rate 0 with
\* fewer than 10 samples, otherwise the rates of change over the 10 most
\* recent samples and their labels.
calculate_trends(counts, densities, times) ==
    trends_over(counts, densities, times, trend_samples)

\* What the configuration holds under crowd_analysis.alert_thresholds:
\* nothing, or a dictionary.
no_thresholds == [present |-> FALSE, map |-> default_thresholds]

\* CrowdAnalyzer.__init__ under a configuration with the thresholds
\* configured: config.get hands back the configured dictionary as it is,
\* and the default one only when the configuration has none.
CrowdAnalyzer_init(configured) ==
    [count_history |-> <<>>, density_history |-> <<>>,
     time_history |-> <<>>, smoothed_count |-> 0, smoothed_density |-> 0,
     alert_thresholds |-> IF configured.present THEN configured.map
                          ELSE default_thresholds]

\* A CrowdAnalyzer after __init__ under a configuration without
\* thresholds.
new_analyzer == CrowdAnalyzer_init(no_thresholds)

\* No frame analysed yet.
no_analysis ==
    [person_count |-> 0, smoothed_count |-> 0, density_score |-> 0,
     smoothed_density |-> 0, crowd_level |-> "low", trends |-> no_trends,
     anomalies |-> no_anomalies, timestamp |-> 0, raised |-> "none"]

\* analyze with a fault: a frame without detections is not recorded in the
\* histories.
analyze_skips_empty(a, person_count, density_score, t) ==
    LET counts == IF person_count = 0 THEN a.count_history
                  ELSE deque_append(a.count_history, person_count)
        densities == IF person_count = 0 THEN a.density_history
                     ELSE deque_append(a.density_history, density_score)
        times == IF person_count = 0 THEN a.time_history
                 ELSE deque_append(a.time_history, t)
        smoothed == _update_smoothed_values(a.smoothed_count,
                        a.smoothed_density, person_count, density_score)
        crowd_level == classify_crowd_level(a.alert_thresholds,
                                            smoothed.smoothed_count)
    IN  [analyzer |->
            [count_history |-> counts, density_history |-> densities,
             time_history |-> times,
             smoothed_count |-> smoothed.smoothed_count,
             smoothed_density |-> smoothed.smoothed_density,
             alert_thresholds |-> a.alert_thresholds],
         results |->
            IF crowd_level = "KeyError"
            THEN [no_analysis EXCEPT !.raised = "KeyError"]
            ELSE
            [person_count |-> person_count,
             smoothed_count |-> smoothed.smoothed_count,
             density_score |-> density_score,
             smoothed_density |-> smoothed.smoothed_density,
             crowd_level |-> crowd_level,
             trends |-> calculate_trends(counts, densities, times),
             anomalies |-> detect_anomalies(counts, densities, person_count,
                                            density_score),
             timestamp |-> t,
             raised |-> "none"]]

\* CrowdAnalyzer.analyze_crowd on the analyzer a, for a frame with
\* person_count persons and density score density_score at clock reading
\* t: the histories are appended to, the smoothed values updated, the
\* crowd level classified from the smoothed count, the trends calculated
\* and the anomalies detected from the raw values. When the classification
\* raises, the histories and smoothed values are already updated and no
\* result is returned.
analyze(a, person_count, density_score, t) ==
    LET counts == deque_append(a.count_history, person_count)
        densities == deque_append(a.density_history, density_score)
        times == deque_append(a.time_history, t)
        smoothed == _update_smoothed_values(a.smoothed_count,
                        a.smoothed_density, person_count, density_score)
        crowd_level == classify_crowd_level(a.alert_thresholds,
                                            smoothed.smoothed_count)
    IN  [analyzer |->
            [count_history |-> counts, density_history |-> densities,
             time_history |-> times,
             smoothed_count |-> smoothed.smoothed_count,
             smoothed_density |-> smoothed.smoothed_density,
             alert_thresholds |-> a.alert_thresholds],
         results |->
            IF crowd_level = "KeyError"
            THEN [no_analysis EXCEPT !.raised = "KeyError"]
            ELSE
            [person_count |-> person_count,
             smoothed_count |-> smoothed.smoothed_count,
             density_score |-> density_score,
             smoothed_density |-> smoothed.smoothed_density,
             crowd_level |-> crowd_level,
             trends |-> calculate_trends(counts, densities, times),
             anomalies |-> detect_anomalies(counts, densities, person_count,
                                            density_score),
             timestamp |-> t,
             raised |-> "none"]]

\* ------------------------------------------------- density and heatmap
\* A box is <<x1, y1, x2, y2>> in whole pixels; a density score and a
\* heatmap cell are fractions num / den of whole numbers, den positive.

\* max(0, min(v, limit - 1))
clamp(v, limit) ==
    IF v < 0 THEN 0 ELSE IF v > limit - 1 THEN limit - 1 ELSE v

\* The pixels mask[y1:y2, x1:x2] = 1 sets for a box, its coordinates
\* clamped into the frame first: none when the clamped box is empty.
box_mask(box, dims) ==
    LET x1 == clamp(box[1], dims.width)
        y1 == clamp(box[2], dims.height)
        x2 == clamp(box[3], dims.width)
        y2 == clamp(box[4], dims.height)
    IN  IF x2 > x1 /\ y2 > y1
        THEN (x1..(x2 - 1)) \X (y1..(y2 - 1))
        ELSE {}

\* CrowdAnalyzer._calculate_bbox_coverage_density: the share of the
\* frame's pixels that some box covers, capped at 1.
_calculate_bbox_coverage_density(bs, dims) ==
    LET total_area == dims.width * dims.height
        covered_area ==
            Cardinality(UNION {box_mask(bs[i], dims) : i \in DOMAIN bs})
    IN  IF bs = <<>> THEN [num |-> 0, den |-> 1]
        ELSE IF covered_area > total_area
        THEN [num |-> 1, den |-> 1]
        ELSE [num |-> covered_area, den |-> total_area]

\* The largest whole number between lo and hi whose square is at most v.
RECURSIVE isqrt_between(_, _, _)
isqrt_between(v, lo, hi) ==
    IF lo >= hi THEN lo
    ELSE LET mid == (lo + hi + 1) \div 2
         IN  IF mid * mid <= v THEN isqrt_between(v, mid, hi)
             ELSE isqrt_between(v, lo, mid - 1)

\* np.sqrt(v) in hundredths, rounded down.
sqrt_hundredths(v) == isqrt_between(v * 100 * 100, 0, 40 * 1000)

\* Twice the centre of a box.
center_doubled(box) == <<box[1] + box[3], box[2] + box[4]>>

\* The square of twice the distance between the centres of two boxes.
distance_doubled_squared(a, b) ==
    LET dx == center_doubled(a)[1] - center_doubled(b)[1]
        dy == center_doubled(a)[2] - center_doubled(b)[2]
    IN  dx * dx + dy * dy

\* min(xs) of a non-empty set of numbers.
set_min(xs) == CHOOSE x \in xs : \A y \in xs : x <= y

\* The distances from each centre to its nearest other centre, summed: in
\* hundredths of a pixel, doubled.
nearest_distances_doubled(bs) ==
    sum([i \in DOMAIN bs |->
        sqrt_hundredths(set_min({distance_doubled_squared(bs[i], bs[j]) :
                                    j \in DOMAIN bs \ {i}}))])

\* _calculate_spatial_distribution_density with a fault: the normalized
\* distance is not capped at 1.
_calculate_spatial_distribution_density_uncapped(bs, dims) ==
    IF Len(bs) < 2
    THEN [num |-> Len(bs), den |-> 100]
    ELSE
    LET frame_diagonal == sqrt_hundredths(dims.width * dims.width
                                          + dims.height * dims.height)
        whole == 2 * Len(bs) * frame_diagonal
    IN  [num |-> whole - nearest_distances_doubled(bs), den |-> whole]

\* CrowdAnalyzer._calculate_spatial_distribution_density: a hundredth per
\* box for fewer than 2 boxes; otherwise 1 less the mean distance to the
\* nearest other centre as a share of the frame's diagonal, that share
\* capped at 1.
_calculate_spatial_distribution_density(bs, dims) ==
    IF Len(bs) < 2
    THEN [num |-> Len(bs), den |-> 100]
    ELSE
    LET frame_diagonal == sqrt_hundredths(dims.width * dims.width
                                          + dims.height * dims.height)
        whole == 2 * Len(bs) * frame_diagonal
        distances == nearest_distances_doubled(bs)
    IN  [num |-> whole - (IF distances < whole THEN distances ELSE whole),
         den |-> whole]

\* CrowdAnalyzer.calculate_density_score: 0.0 without boxes or without
\* frame dimensions, otherwise by the method configured (bbox_coverage
\* for a method that is not known).
calculate_density_score(bs, dims, method) ==
    IF bs = <<>> \/ dims.width = 0 \/ dims.height = 0
    THEN [num |-> 0, den |-> 1]
    ELSE IF method = "spatial_distribution"
    THEN _calculate_spatial_distribution_density(bs, dims)
    ELSE _calculate_bbox_coverage_density(bs, dims)

\* config.get('crowd_analysis.density_grid_size', [10, 10]): rows, columns
grid_size == <<10, 10>>

\* The cells of the heatmap: <<row, column>>.
GridCells == (0..(grid_size[1] - 1)) \X (0..(grid_size[2] - 1))

\* int(a / b) for b positive: the quotient rounded toward zero.
int_div(a, b) == IF a >= 0 THEN a \div b ELSE -((-a) \div b)

\* cell_of with a fault: the cell is not brought within the grid.
cell_of_unclamped(box, dims) ==
    <<int_div((box[2] + box[4]) * grid_size[1], 2 * dims.height),
      int_div((box[1] + box[3]) * grid_size[2], 2 * dims.width)>>

\* The cell <<grid_y, grid_x>> generate_density_heatmap counts a box in:
\* int(center / cell size), where the centre is (x1 + x2) / 2 and
\* the cell width is frame_width / grid_w, likewise for the rows, brought
\* within the grid.
cell_of(box, dims) ==
    <<clamp(int_div((box[2] + box[4]) * grid_size[1], 2 * dims.height),
            grid_size[1]),
      clamp(int_div((box[1] + box[3]) * grid_size[2], 2 * dims.width),
            grid_size[2])>>

\* max(xs) of a non-empty set of numbers.
set_max(xs) == CHOOSE x \in xs : \A y \in xs : x >= y

\* CrowdAnalyzer.generate_density_heatmap: all zeros without frame
\* dimensions or without boxes; otherwise every box is counted in its cell
\* and the counts are divided by the largest of them. The counts are kept
\* next to the cells returned.
generate_density_heatmap(bs, dims) ==
    LET counted == IF dims.width = 0 \/ dims.height = 0 THEN <<>> ELSE bs
        increments ==
            [cell \in GridCells |->
                Cardinality({i \in DOMAIN counted :
                                cell_of(counted[i], dims) = cell})]
        peak == set_max({increments[cell] : cell \in GridCells})
    IN  [increments |-> increments,
         cells |-> [cell \in GridCells |->
                       IF peak > 0
                       THEN [num |-> increments[cell], den |-> peak]
                       ELSE [num |-> 0, den |-> 1]]]

\* ------------------------------------------------------ video capture
\* A frame is the number of the read that delivered it, counted from 1;
\* 0 stands for no frame (None).

\* Queue(maxsize=10)
queue_maxsize == 10

\* put_nowait with a fault: on a full queue the oldest frame makes room.
put_nowait_evicting(queue, frame) ==
    IF Len(queue) < queue_maxsize
    THEN [queue |-> Append(queue, frame), full |-> FALSE]
    ELSE [queue |-> Append(Tail(queue), frame), full |-> FALSE]

\* Queue.put_nowait: the frame joins the end of the queue, or Full is
\* raised and the queue stays as it is.
put_nowait(queue, frame) ==
    IF Len(queue) < queue_maxsize
    THEN [queue |-> Append(queue, frame), full |-> FALSE]
    ELSE [queue |-> queue, full |-> TRUE]

\* The capture thread and the main loop before start_capture and run.
not_started == [pc |-> "not started", frame |-> 0]

\* No CrowdDetector is constructed.
no_detector ==
    [constructed |-> "no", running |-> FALSE, paused |-> FALSE,
     frame_count |-> 0, display_output |-> FALSE,
     convex_http_endpoint |-> FALSE, pandal_id |-> FALSE]

\* VideoProcessor.__init__: not running, no capture device, no writer.
new_video_processor ==
    [running |-> FALSE, cap |-> "None", video_writer |-> "None",
     save_output |-> FALSE]

\* No record was logged and no alert triggered during the run.
no_record == [frame |-> 0, alert_level |-> "none", crowd_level |-> "none"]

no_alert == [frame |-> 0, alert_level |-> "none", time |-> 0]

\* run was not entered.
no_run ==
    [exit |-> "none", sent |-> 0, keys_left |-> 0, key |-> "none",
     logged |-> no_record, fired |-> no_alert]

\* CrowdDetector.__init__ with or without a Convex endpoint and a pandal
\* id: with an endpoint and no pandal id self.logger.warning is called
\* before _setup_logging has set self.logger, which raises AttributeError.
CrowdDetector_fields(endpoint, pandal, display) ==
    [no_detector EXCEPT
        !.constructed = IF endpoint /\ ~pandal THEN "AttributeError"
                        ELSE "yes",
        !.display_output = display,
        !.convex_http_endpoint = endpoint,
        !.pandal_id = pandal]

\* No detector runs.
NoDetector ==
    /\ detector = no_detector
    /\ video_processor = new_video_processor
    /\ run_log = no_run

\* No video is captured.
NoVideo ==
    /\ source_left = 0
    /\ frames_read = 0
    /\ capture_thread = not_started
    /\ frame_queue = <<>>
    /\ vp_frame_count = 0
    /\ main_loop = not_started
    /\ received = <<>>

\* The capture thread has been started and _capture_frames has not
\* returned: thread.is_alive().
is_alive ==
    capture_thread.pc \in {"while", "read", "put_nowait", "frame_count"}

\* VideoProcessor.is_running: self.running, true from start_capture until
\* stop_capture, and the capture thread alive.
is_running == video_processor.running /\ is_alive

\* cap.release() and video_writer.release() on what was created.
release(vp) ==
    [vp EXCEPT !.cap = IF @ = "None" THEN "None" ELSE "released",
               !.video_writer = IF @ = "None" THEN "None" ELSE "released"]

\* stop_capture with a fault: the device and the writer are kept.
stop_capture_keeps_device(vp) == [vp EXCEPT !.running = FALSE]

\* VideoProcessor.stop_capture once the join has returned: running is
\* False, the capture device and the video writer are released.
stop_capture(vp) == release([vp EXCEPT !.running = FALSE])

\* ------------------------------------------------------------- actions

\* The alert manager is between two calls: process_frame has finished the
\* frame, or a direct caller has the result of its last check_alerts.
ready == pc = "idle" \/ (caller = "direct" /\ pc = "checked")

\* The clock advances; it does so at any point of a frame.
tick ==
    /\ \E d \in TickSet :
        /\ now + d <= MaxTime
        /\ now' = now + d
    /\ UNCHANGED <<pc, current_alert_level, last_alert_time, last_log_time,
                   last_image_save, config_vars, analysis_results,
                   current_time, alert_info, email_result, log_outcome,
                   image_outcome, caller, returned>>
    /\ UNCHANGED other_vars

\* AlertManager.check_alerts, called with the crowd level and the
\* anomalies of an analysis, up to the choice of the primary alert
\* (process_frame's call): the clock is read, both checks run in order on
\* self.last_alert_time, and an evaluation that triggers nothing returns.
check_alerts_on(crowd_level, anomalies) ==
    /\ LET threshold_alert ==
                _check_threshold_alerts(last_alert_time, crowd_level, now)
            anomaly_alert ==
                _check_anomaly_alerts(threshold_alert.lat, anomalies, now)
            triggered == threshold_alert.info.alert_triggered
                         \/ anomaly_alert.info.alert_triggered
        IN  /\ analysis_results' = [crowd_level |-> crowd_level,
                                    anomalies |-> anomalies]
            /\ current_time' = now
            /\ last_alert_time' = anomaly_alert.lat
            /\ alert_info' = primary_alert(threshold_alert.info,
                                           anomaly_alert.info)
            /\ pc' = IF triggered THEN "dispatch" ELSE "checked"
            /\ current_alert_level' = IF triggered THEN current_alert_level
                                      ELSE alert_info_default.alert_level
    /\ email_result' = "none"
    /\ log_outcome' = "pending"
    /\ image_outcome' = "pending"
    /\ UNCHANGED <<now, last_log_time, last_image_save, config_vars, caller,
                   returned>>
    /\ UNCHANGED other_vars

\* check_alerts called with any analysis results.
check_alerts ==
    /\ ready
    /\ \E crowd_level \in CrowdLevels, anomalies \in AnomalyDicts :
        check_alerts_on(crowd_level, anomalies)

\* AlertManager._execute_alert_actions and the rest of check_alerts: the
\* enabled channels run in order, the e-mail send succeeds or fails, the
\* actions are recorded, current_alert_level is set and the result returned.
\* An exception leaving the send would leave check_alerts with no result.
_execute_alert_actions ==
    /\ pc = "dispatch"
    /\ \E smtp_ok \in BOOLEAN :
        LET send_result ==
                IF email_enabled
                THEN _send_email_alert(email_config_complete, smtp_ok)
                ELSE "none"
        IN  /\ email_result' = send_result
            /\ IF send_result = "raised"
               THEN /\ pc' = "raised"
                    /\ UNCHANGED <<alert_info, current_alert_level, returned>>
               ELSE /\ alert_info' =
                        [alert_info EXCEPT !.actions_taken =
                            actions_taken_list(console_output, email_enabled,
                                               send_result, sound_alerts)]
                    /\ current_alert_level' = alert_info.alert_level
                    /\ returned' = DictSet(returned, alert_info.alert_level,
                                           current_time)
                    /\ pc' = "checked"
    /\ UNCHANGED <<now, last_alert_time, last_log_time, last_image_save,
                   config_vars, analysis_results, current_time, log_outcome,
                   image_outcome, caller>>
    /\ UNCHANGED other_vars

\* AlertManager.log_data (process_frame's call): nothing when logging is
\* disabled or the interval has not passed; otherwise last_log_time is set
\* and the append succeeds or fails (caught and logged). Inside run the
\* record written is kept: the frame it was written for and the levels it
\* carries.
log_data ==
    /\ caller = "process_frame"
    /\ pc = "checked"
    /\ IF ~log_enabled
       THEN /\ log_outcome' = "disabled"
            /\ UNCHANGED last_log_time
       ELSE IF now - last_log_time < log_interval
            THEN /\ log_outcome' = "not_due"
                 /\ UNCHANGED last_log_time
            ELSE /\ last_log_time' = now
                 /\ \E write_ok \in BOOLEAN :
                     log_outcome' = IF write_ok THEN "written" ELSE "failed"
    /\ pc' = "logged"
    /\ run_log' = IF main_loop.pc = "process_frame"
                     /\ log_outcome' = "written"
                  THEN [run_log EXCEPT !.logged =
                            [frame |-> detector.frame_count,
                             alert_level |-> alert_info.alert_level,
                             crowd_level |-> analysis_results.crowd_level]]
                  ELSE run_log
    /\ UNCHANGED <<now, current_alert_level, last_alert_time, last_image_save,
                   config_vars, analysis_results, current_time, alert_info,
                   email_result, image_outcome, caller, returned>>
    /\ UNCHANGED <<log_vars, csv_vars, analyzer_vars, box_vars, video_vars,
                   detector, video_processor>>

\* The end of process_frame: AlertManager.save_alert_image, called only for
\* a triggered alert; nothing when image saving is disabled or the interval
\* has not passed; otherwise cv2.imwrite succeeds (last_image_save is set),
\* returns False or raises (both logged).
save_alert_image ==
    /\ pc = "logged"
    /\ IF ~alert_info.alert_triggered
       THEN /\ image_outcome' = "not_called"
            /\ UNCHANGED last_image_save
       ELSE IF ~save_images
            THEN /\ image_outcome' = "disabled"
                 /\ UNCHANGED last_image_save
            ELSE IF ~image_due(now, last_image_save)
                 THEN /\ image_outcome' = "not_due"
                      /\ UNCHANGED last_image_save
                 ELSE \E imwrite \in {"ok", "false", "raises"} :
                        /\ image_outcome' = IF imwrite = "ok" THEN "saved"
                                            ELSE "failed"
                        /\ last_image_save' = IF imwrite = "ok" THEN now
                                              ELSE last_image_save
    /\ pc' = "idle"
    /\ UNCHANGED <<now, current_alert_level, last_alert_time, last_log_time,
                   config_vars, analysis_results, current_time, alert_info,
                   email_result, log_outcome, caller, returned>>
    /\ UNCHANGED other_vars

\* dict.clear with a fault: the entries are kept.
clear_keeps(d) == d

\* self.last_alert_time.clear()
clear(d) == EmptyDict

\* AlertManager.reset_alert_state, called between two frames.
reset_alert_state ==
    /\ ready
    /\ pc' = "idle"
    /\ current_alert_level' = "none"
    /\ last_alert_time' = clear(last_alert_time)
    /\ returned' = EmptyDict
    /\ UNCHANGED <<now, last_log_time, last_image_save, config_vars,
                   analysis_results, current_time, alert_info, email_result,
                   log_outcome, image_outcome, caller>>
    /\ UNCHANGED other_vars

\* AlertManager.__init__ on the same log directory (the program is started
\* again): the state of the manager is new, _setup_log_files runs on the
\* current calendar day.
AlertManager_init ==
    /\ caller = "logger"
    /\ instances < MaxInstances
    /\ instances' = instances + 1
    /\ LET setup == _setup_log_files(files, log_enabled, log_format,
                                     strftime_Ymd(now))
       IN  /\ files' = setup.files
           /\ log_file' = setup.log_file
    /\ current_alert_level' = "none"
    /\ last_alert_time' = EmptyDict
    /\ last_log_time' = 0
    /\ last_image_save' = 0
    /\ log_outcome' = "pending"
    /\ log_fault' = "none"
    /\ UNCHANGED <<now, pc, config_vars, analysis_results, current_time,
                   alert_info, email_result, image_outcome, caller, returned,
                   log_format>>
    /\ UNCHANGED non_manager_vars

\* log_data_call with a fault: last_log_time is set only after an append
\* that succeeded.
log_data_call_stamp_on_success ==
    /\ caller = "logger"
    /\ IF ~log_due(log_enabled, now, last_log_time)
       THEN /\ log_outcome' = IF log_enabled THEN "not_due" ELSE "disabled"
            /\ UNCHANGED <<last_log_time, files, log_fault>>
       ELSE \E fault \in LogFaults(log_format) :
                LET done == IF log_format = "csv"
                            THEN _log_csv(files[log_file], now, instances,
                                          fault)
                            ELSE _log_json(files[log_file], now, instances,
                                           fault)
                IN  /\ files' = [files EXCEPT ![log_file] = done.file]
                    /\ log_outcome' = done.outcome
                    /\ log_fault' = fault
                    /\ last_log_time' = IF done.outcome = "written" THEN now
                                        ELSE last_log_time
    /\ UNCHANGED <<now, pc, current_alert_level, last_alert_time,
                   last_image_save, config_vars, analysis_results,
                   current_time, alert_info, email_result, image_outcome,
                   caller, returned, log_format, log_file, instances>>
    /\ UNCHANGED non_manager_vars

\* AlertManager.log_data with the artifact it writes (a caller that only
\* logs): nothing when logging is disabled or the interval has not passed;
\* otherwise last_log_time is set first and the record is appended by
\* _log_csv or _log_json, whose I/O works or meets a fault.
log_data_call ==
    /\ caller = "logger"
    /\ IF ~log_due(log_enabled, now, last_log_time)
       THEN /\ log_outcome' = IF log_enabled THEN "not_due" ELSE "disabled"
            /\ UNCHANGED <<last_log_time, files, log_fault>>
       ELSE /\ last_log_time' = now
            /\ \E fault \in LogFaults(log_format) :
                LET done == IF log_format = "csv"
                            THEN _log_csv(files[log_file], now, instances,
                                          fault)
                            ELSE _log_json(files[log_file], now, instances,
                                           fault)
                IN  /\ files' = [files EXCEPT ![log_file] = done.file]
                    /\ log_outcome' = done.outcome
                    /\ log_fault' = fault
    /\ UNCHANGED <<now, pc, current_alert_level, last_alert_time,
                   last_image_save, config_vars, analysis_results,
                   current_time, alert_info, email_result, image_outcome,
                   caller, returned, log_format, log_file, instances>>
    /\ UNCHANGED non_manager_vars

\* The log directory after the first manager's _setup_log_files, which
\* found it empty.
InitLogFiles ==
    /\ instances = 1
    /\ LET setup == _setup_log_files(EmptyDict, log_enabled, log_format,
                                     strftime_Ymd(EpochStart))
       IN  /\ files = setup.files
           /\ log_file = setup.log_file
    /\ log_fault = "none"

\* What the alert manager holds, but for the clock.
manager_vars == <<pc, current_alert_level, last_alert_time, last_log_time,
                  last_image_save, config_vars, analysis_results,
                  current_time, alert_info, email_result, log_outcome,
                  image_outcome, caller, returned>>

\* _log_csv's writer.writerow: the row built from the results handed in is
\* written as one line.
_log_csv_writerow ==
    /\ caller = "csv"
    /\ line = <<>>
    /\ line' = writerow(log_row(row_input.analysis_results,
                                row_input.alert_info, now))
    /\ UNCHANGED <<now, manager_vars, log_vars, analyzer_vars, box_vars,
                   video_vars, detector_vars, row_input, parsed>>

\* csv.reader reads the next character of the line back.
csv_reader_next ==
    /\ caller = "csv"
    /\ line /= <<>>
    /\ parsed.state /= "done"
    /\ parsed' = reader_step(line, parsed)
    /\ UNCHANGED <<now, manager_vars, log_vars, analyzer_vars, box_vars,
                   video_vars, detector_vars, row_input, line>>

\* No call of classify_crowd_level yet.
no_call == [person_count |-> 0, level |-> "none"]

no_classification == [person_count |-> 0, level |-> "none", before |-> no_call]

\* The counts classify_crowd_level is called with: below, at and above
\* each of the bounds configured.
Counts == {0, 19, 20, 21, 49, 50, 51, 52, 99, 100, 101}

\* CrowdAnalyzer.classify_crowd_level called with any count.
classify_crowd_level_call ==
    /\ caller = "analyzer"
    /\ \E person_count \in Counts :
        classified' = [person_count |-> person_count,
                       level |-> classify_crowd_level(alert_thresholds,
                                     person_count * FixedPoint),
                       before |-> [person_count |-> classified.person_count,
                                   level |-> classified.level]]
    /\ UNCHANGED <<now, manager_vars, log_vars, csv_vars, count_history,
                   density_history, time_history, smoothed_count,
                   smoothed_density, analysis, frame_log, frames_left,
                   spikes_left, scene, alert_thresholds, box_vars,
                   video_vars, detector_vars>>

\* The frame's width and height in pixels, and how many boxes a frame has
\* at most.
FrameWidth == 20

FrameHeight == 10

MaxBoxes == 3

\* The boxes a detection can be: inside the frame, inside the first of
\* them, overlapping the first and partly outside, empty on the frame's
\* far corner, and wholly outside.
BoxInputs ==
    {<<0, 0, FrameWidth \div 2, FrameHeight \div 2>>,
     <<1, 1, 2, 2>>,
     <<FrameWidth \div 2 - 1, 0, FrameWidth + 3, FrameHeight + 3>>,
     <<FrameWidth, FrameHeight, FrameWidth, FrameHeight>>,
     <<-2 * FrameWidth, -2 * FrameHeight, 2 - 2 * FrameWidth,
       2 - 2 * FrameHeight>>}

\* No call of calculate_density_score yet, and none of
\* generate_density_heatmap.
no_density ==
    [called |-> FALSE, score |-> [num |-> 0, den |-> 1], added |-> <<>>,
     before |-> [called |-> FALSE, score |-> [num |-> 0, den |-> 1]]]

no_heatmap == [called |-> FALSE, boxes |-> <<>>, increments |-> <<>>,
               cells |-> <<>>]

\* CrowdAnalyzer.calculate_density_score on the boxes so far or on one
\* box more.
calculate_density_score_call ==
    /\ caller = "analyzer"
    /\ \E more \in {<<>>} \cup {<<box>> : box \in BoxInputs} :
        /\ Len(boxes \o more) <= MaxBoxes
        /\ boxes' = boxes \o more
        /\ density_call' = [called |-> TRUE,
                            score |-> calculate_density_score(
                                          boxes \o more, frame_dimensions,
                                          density_method),
                            added |-> more,
                            before |-> [called |-> density_call.called,
                                        score |-> density_call.score]]
    /\ UNCHANGED <<now, manager_vars, log_vars, csv_vars, analyzer_vars,
                   video_vars, detector_vars, frame_dimensions, density_method, heatmap>>

\* CrowdAnalyzer.generate_density_heatmap on the boxes so far.
generate_density_heatmap_call ==
    /\ caller = "analyzer"
    /\ LET result == generate_density_heatmap(boxes, frame_dimensions)
       IN  heatmap' = [called |-> TRUE, boxes |-> boxes,
                       increments |-> result.increments,
                       cells |-> result.cells]
    /\ UNCHANGED <<now, manager_vars, log_vars, csv_vars, analyzer_vars,
                   video_vars, detector_vars, frame_dimensions, density_method, boxes,
                   density_call>>

\* _capture_frames: while self.running, and the call of self.cap.read().
capture_while ==
    /\ caller = "run"
    /\ capture_thread.pc = "while"
    /\ capture_thread' = [pc |-> IF video_processor.running THEN "read"
                                 ELSE "exited",
                          frame |-> 0]
    /\ UNCHANGED <<now, manager_vars, log_vars, csv_vars, analyzer_vars,
                   box_vars, detector_vars, source_left, frames_read,
                   frame_queue, vp_frame_count, main_loop, received>>

\* _capture_frames: ret, frame = self.cap.read() returns; the thread ends
\* when the read fails.
capture_read ==
    /\ caller = "run"
    /\ capture_thread.pc = "read"
    /\ IF source_left > 0 /\ video_processor.cap = "open"
       THEN /\ source_left' = source_left - 1
            /\ frames_read' = frames_read + 1
            /\ capture_thread' = [pc |-> "put_nowait",
                                  frame |-> frames_read + 1]
       ELSE /\ capture_thread' = [pc |-> "exited", frame |-> 0]
            /\ UNCHANGED <<source_left, frames_read>>
    /\ UNCHANGED <<now, manager_vars, log_vars, csv_vars, analyzer_vars,
                   box_vars, detector_vars, frame_queue, vp_frame_count, main_loop,
                   received>>

\* _capture_frames: self.frame_queue.put_nowait(frame.copy()); when Full is
\* raised the frame is skipped and the next one is read.
capture_put_nowait ==
    /\ caller = "run"
    /\ capture_thread.pc = "put_nowait"
    /\ LET put == put_nowait(frame_queue, capture_thread.frame)
       IN  /\ frame_queue' = put.queue
           /\ capture_thread' = IF put.full
                                THEN [pc |-> "while", frame |-> 0]
                                ELSE [pc |-> "frame_count", frame |-> 0]
    /\ UNCHANGED <<now, manager_vars, log_vars, csv_vars, analyzer_vars,
                   box_vars, detector_vars, source_left, frames_read, vp_frame_count,
                   main_loop, received>>

\* _capture_frames: self.frame_count += 1, after the put.
capture_frame_count ==
    /\ caller = "run"
    /\ capture_thread.pc = "frame_count"
    /\ vp_frame_count' = vp_frame_count + 1
    /\ capture_thread' = [pc |-> "while", frame |-> 0]
    /\ UNCHANGED <<now, manager_vars, log_vars, csv_vars, analyzer_vars,
                   box_vars, detector_vars, source_left, frames_read, frame_queue,
                   main_loop, received>>

\* stop_capture: self.running = False.
stop_capture_running ==
    /\ caller = "run"
    /\ main_loop.pc = "stop_capture"
    /\ video_processor' = [video_processor EXCEPT !.running = FALSE]
    /\ main_loop' = [main_loop EXCEPT !.pc = "join"]
    /\ UNCHANGED <<now, manager_vars, log_vars, csv_vars, analyzer_vars,
                   box_vars, source_left, frames_read, capture_thread,
                   frame_queue, vp_frame_count, received, detector, run_log>>

\* stop_capture: if self.thread and self.thread.is_alive():
\* self.thread.join(timeout=2.0). The join returns when the thread has
\* ended, or after two seconds with the thread still inside cap.read().
stop_capture_join ==
    /\ caller = "run"
    /\ main_loop.pc = "join"
    /\ ~is_alive \/ capture_thread.pc = "read"
    /\ main_loop' = [main_loop EXCEPT !.pc = "release"]
    /\ UNCHANGED <<now, manager_vars, log_vars, csv_vars, analyzer_vars,
                   box_vars, detector_vars, source_left, frames_read,
                   capture_thread, frame_queue, vp_frame_count, received>>

\* stop_capture: self.cap.release() and self.video_writer.release().
stop_capture_release ==
    /\ caller = "run"
    /\ main_loop.pc = "release"
    /\ video_processor' = release(video_processor)
    /\ main_loop' = [main_loop EXCEPT !.pc = "stopped"]
    /\ UNCHANGED <<now, manager_vars, log_vars, csv_vars, analyzer_vars,
                   box_vars, source_left, frames_read, capture_thread,
                   frame_queue, vp_frame_count, received, detector, run_log>>

\* get_frame_generator: while self.running.
generator_while ==
    /\ caller = "run"
    /\ main_loop.pc = "generator"
    /\ main_loop' = [main_loop EXCEPT
                        !.pc = IF video_processor.running
                               THEN "generator get_frame"
                               ELSE "generator returned"]
    /\ UNCHANGED <<now, manager_vars, log_vars, csv_vars, analyzer_vars,
                   box_vars, detector_vars, source_left, frames_read,
                   capture_thread, frame_queue, vp_frame_count, received>>

\* get_frame_generator: frame = self.get_frame(timeout=0.1); the oldest
\* frame of the queue is yielded to the consumer, or the queue is still
\* empty as the timeout ends and nothing is yielded.
generator_get_frame ==
    /\ caller = "run"
    /\ main_loop.pc = "generator get_frame"
    /\ IF frame_queue /= <<>>
       THEN /\ frame_queue' = Tail(frame_queue)
            /\ received' = Append(received, Head(frame_queue))
       ELSE UNCHANGED <<frame_queue, received>>
    /\ main_loop' = [main_loop EXCEPT !.pc = "generator"]
    /\ UNCHANGED <<now, manager_vars, log_vars, csv_vars, analyzer_vars,
                   box_vars, detector_vars, source_left, frames_read,
                   capture_thread, vp_frame_count>>

\* run: frame = self.video_processor.get_frame(timeout=1.0); the oldest
\* frame of the queue, or None when the queue is still empty as the
\* timeout ends.
run_get_frame ==
    /\ caller = "run"
    /\ main_loop.pc = "get_frame"
    /\ IF frame_queue /= <<>>
       THEN /\ frame_queue' = Tail(frame_queue)
            /\ main_loop' = [main_loop EXCEPT !.pc = "process_frame",
                                              !.frame = Head(frame_queue)]
       ELSE /\ main_loop' = [pc |-> "is_running", frame |-> 0]
            /\ UNCHANGED frame_queue
    /\ UNCHANGED <<now, manager_vars, log_vars, csv_vars, analyzer_vars,
                   box_vars, detector_vars, source_left, frames_read, capture_thread,
                   vp_frame_count, received>>

\* run: after a timeout, if self.video_processor.is_running(): continue,
\* else: break.
run_is_running ==
    /\ caller = "run"
    /\ main_loop.pc = "is_running"
    /\ main_loop' = [main_loop EXCEPT
                        !.pc = IF is_running THEN "get_frame" ELSE "ended"]
    /\ UNCHANGED <<now, manager_vars, log_vars, csv_vars, analyzer_vars,
                   box_vars, detector_vars, source_left, frames_read, capture_thread,
                   frame_queue, vp_frame_count, received>>

\* run: the frame is processed and the loop goes round.
run_process_frame ==
    /\ caller = "run"
    /\ main_loop.pc = "process_frame"
    /\ received' = Append(received, main_loop.frame)
    /\ main_loop' = [main_loop EXCEPT !.pc = "get_frame", !.frame = 0]
    /\ UNCHANGED <<now, manager_vars, log_vars, csv_vars, analyzer_vars,
                   box_vars, detector_vars, source_left, frames_read, capture_thread,
                   frame_queue, vp_frame_count>>

\* The frame of a calm scene, and the frames a scene can show.
baseline == [person_count |-> 10, density_score |-> 1]

FrameInputs == [person_count : {0, 10, 60}, density_score : {1, 9}]

\* The frame of a calm scene with a larger crowd.
crowded == [person_count |-> 48, density_score |-> 1]

\* The time between two frames.
frame_period == 1

\* The time between two frames of a slow source.
slow_period == 4

\* CrowdAnalyzer.analyze_crowd for the next frame of the session; the
\* scene's frame period passes before the next one.
analyze_crowd ==
    /\ caller = "analyzer"
    /\ frames_left > 0
    /\ \E input \in FrameInputs \cup {scene.calm} :
        /\ input /= scene.calm => spikes_left > 0
        /\ spikes_left' = IF input = scene.calm THEN spikes_left
                          ELSE spikes_left - 1
        /\ LET step == analyze([count_history |-> count_history,
                                density_history |-> density_history,
                                time_history |-> time_history,
                                smoothed_count |-> smoothed_count,
                                smoothed_density |-> smoothed_density,
                                alert_thresholds |-> alert_thresholds],
                               input.person_count, input.density_score, now)
           IN  /\ count_history' = step.analyzer.count_history
               /\ density_history' = step.analyzer.density_history
               /\ time_history' = step.analyzer.time_history
               /\ smoothed_count' = step.analyzer.smoothed_count
               /\ smoothed_density' = step.analyzer.smoothed_density
               /\ analysis' = step.results
        /\ frame_log' = Append(frame_log,
                               [person_count |-> input.person_count,
                                density_score |-> input.density_score,
                                timestamp |-> now])
    /\ frames_left' = frames_left - 1
    /\ now' = now + scene.period
    /\ UNCHANGED <<manager_vars, log_vars, csv_vars, scene,
                   alert_thresholds, classified, box_vars, video_vars, detector_vars>>

\* The frame dimensions before the first frame is analysed.
unknown_dimensions == [width |-> 0, height |-> 0]

\* No boxes were handed to a CrowdAnalyzer configured by default.
NoBoxes ==
    /\ frame_dimensions = unknown_dimensions
    /\ density_method = "bbox_coverage"
    /\ boxes = <<>>
    /\ density_call = no_density
    /\ heatmap = no_heatmap

\* A new CrowdAnalyzer that is not driven.
NewAnalyzer ==
    /\ NoBoxes
    /\ count_history = <<>>
    /\ density_history = <<>>
    /\ time_history = <<>>
    /\ smoothed_count = 0
    /\ smoothed_density = 0
    /\ analysis = no_analysis
    /\ frame_log = <<>>
    /\ frames_left = 0
    /\ spikes_left = 0
    /\ scene = [calm |-> baseline, period |-> frame_period]
    /\ alert_thresholds = default_thresholds
    /\ classified = no_classification

\* ---------------------------------------------- actions of the detector

\* The video source and the queue, which run hides behind get_frame.
queue_vars == <<source_left, frames_read, capture_thread, frame_queue,
                vp_frame_count, received>>

\* What a frame shows the detector: nobody (no boxes, density 0), the calm
\* scene, or a crowd.
no_detections == [person_count |-> 0, density_score |-> 0]

RunInputs ==
    {no_detections, baseline, [person_count |-> 60, density_score |-> 9],
     [person_count |-> 120, density_score |-> 9]}

\* The keys cv2.waitKey returns that change the state: none pressed (or
\* 's', 'h'), quit, pause/resume, reset.
Keys == {"none", "q", "p", "r"}

\* CrowdDetector._send_data_to_convex: nothing is sent without an endpoint
\* or without a pandal id; otherwise one payload is posted (a failed
\* request is caught and logged).
_send_data_to_convex(d, sent) ==
    IF ~d.convex_http_endpoint \/ ~d.pandal_id THEN sent ELSE sent + 1

\* CrowdDetector(...) is constructed, with or without a Convex endpoint
\* and a pandal id, and with the display on or off.
CrowdDetector_init ==
    /\ caller = "process_frame"
    /\ detector.constructed = "no"
    /\ \E endpoint \in BOOLEAN, pandal \in BOOLEAN, display \in BOOLEAN :
        detector' = CrowdDetector_fields(endpoint, pandal, display)
    /\ UNCHANGED <<now, manager_vars, log_vars, csv_vars, analyzer_vars,
                   box_vars, video_vars, video_processor, run_log>>

\* run: if not self.start(): return. start_capture opens the source or
\* fails to; on success both running flags are set, the capture device is
\* open, and the video writer too when the output is saved.
run_start ==
    /\ caller = "process_frame"
    /\ detector.constructed = "yes"
    /\ main_loop.pc = "not started"
    /\ \E opened \in BOOLEAN, save_output \in BOOLEAN :
        IF opened
        THEN /\ detector' = [detector EXCEPT !.running = TRUE]
             /\ video_processor' =
                    [running |-> TRUE, cap |-> "open",
                     video_writer |-> IF save_output THEN "open" ELSE "None",
                     save_output |-> save_output]
             /\ main_loop' = [main_loop EXCEPT !.pc = "get_frame"]
             /\ UNCHANGED run_log
        ELSE /\ main_loop' = [main_loop EXCEPT !.pc = "returned"]
             /\ run_log' = [run_log EXCEPT !.exit = "start failed"]
             /\ UNCHANGED <<detector, video_processor>>
    /\ UNCHANGED <<now, manager_vars, log_vars, csv_vars, analyzer_vars,
                   box_vars, queue_vars>>

\* run: get_frame returns None and is_running() is False: the stream has
\* ended and the loop is left.
run_end_of_stream ==
    /\ caller = "process_frame"
    /\ main_loop.pc = "get_frame"
    /\ frames_left = 0
    /\ main_loop' = [main_loop EXCEPT !.pc = "finally"]
    /\ run_log' = [run_log EXCEPT !.exit = "end of stream"]
    /\ UNCHANGED <<now, manager_vars, log_vars, csv_vars, analyzer_vars,
                   box_vars, queue_vars, detector, video_processor>>


\* run_paused_frame with a fault: the data of the last frame processed is
\* sent again for a frame that is discarded.
run_paused_frame_sends ==
    /\ caller = "process_frame"
    /\ main_loop.pc = "get_frame"
    /\ detector.paused
    /\ frames_left > 0
    /\ frames_left' = frames_left - 1
    /\ now' = now + scene.period
    /\ \E key \in {"none", "p", "q"} :
        /\ key /= "none" => (detector.display_output /\ run_log.keys_left > 0)
        /\ detector' = [detector EXCEPT
                            !.frame_count = @ + 1,
                            !.paused = IF key = "p" THEN FALSE ELSE @]
        /\ main_loop' = [main_loop EXCEPT
                            !.pc = IF key = "q" THEN "finally" ELSE @]
        /\ run_log' = [run_log EXCEPT
                            !.sent = _send_data_to_convex(detector, @),
                            !.key = key,
                            !.keys_left = IF key = "none" THEN @ ELSE @ - 1,
                            !.exit = IF key = "q" THEN "quit key" ELSE @]
    /\ UNCHANGED <<manager_vars, log_vars, csv_vars, count_history,
                   density_history, time_history, smoothed_count,
                   smoothed_density, analysis, frame_log, spikes_left, scene,
                   alert_thresholds, classified, box_vars, queue_vars,
                   video_processor>>

\* run while paused: the frame is counted and discarded; with the display
\* on, the key 'p' resumes and 'q' leaves the loop. The frame period
\* passes before the next frame is there.
run_paused_frame ==
    /\ caller = "process_frame"
    /\ main_loop.pc = "get_frame"
    /\ detector.paused
    /\ frames_left > 0
    /\ frames_left' = frames_left - 1
    /\ now' = now + scene.period
    /\ \E key \in {"none", "p", "q"} :
        /\ key /= "none" => (detector.display_output /\ run_log.keys_left > 0)
        /\ detector' = [detector EXCEPT
                            !.frame_count = @ + 1,
                            !.paused = IF key = "p" THEN FALSE ELSE @]
        /\ main_loop' = [main_loop EXCEPT
                            !.pc = IF key = "q" THEN "finally" ELSE @]
        /\ run_log' = [run_log EXCEPT
                            !.key = key,
                            !.keys_left = IF key = "none" THEN @ ELSE @ - 1,
                            !.exit = IF key = "q" THEN "quit key" ELSE @]
    /\ UNCHANGED <<manager_vars, log_vars, csv_vars, count_history,
                   density_history, time_history, smoothed_count,
                   smoothed_density, analysis, frame_log, spikes_left, scene,
                   alert_thresholds, classified, box_vars, queue_vars,
                   video_processor>>

\* run has a frame to dequeue and is not paused: the frame goes to
\* process_frame.
processes_next_frame ==
    /\ caller = "process_frame"
    /\ main_loop.pc = "get_frame"
    /\ pc = "idle"
    /\ ~detector.paused
    /\ frames_left > 0

\* run, not paused, up to process_frame's call of analyze_crowd: the frame
\* is counted, the detector finds what it shows, and analyze_crowd
\* analyses it. An exception raised by the analysis leaves process_frame
\* and the loop.
run_frame ==
    /\ processes_next_frame
    /\ frames_left' = frames_left - 1
    /\ detector' = [detector EXCEPT !.frame_count = @ + 1]
    /\ \E input \in RunInputs :
        /\ input /= scene.calm => spikes_left > 0
        /\ spikes_left' = IF input = scene.calm THEN spikes_left
                          ELSE spikes_left - 1
        /\ LET step == analyze([count_history |-> count_history,
                                density_history |-> density_history,
                                time_history |-> time_history,
                                smoothed_count |-> smoothed_count,
                                smoothed_density |-> smoothed_density,
                                alert_thresholds |-> alert_thresholds],
                               input.person_count, input.density_score,
                               now)
               raised == step.results.raised /= "none"
           IN  /\ count_history' = step.analyzer.count_history
               /\ density_history' = step.analyzer.density_history
               /\ time_history' = step.analyzer.time_history
               /\ smoothed_count' = step.analyzer.smoothed_count
               /\ smoothed_density' = step.analyzer.smoothed_density
               /\ analysis' = step.results
               /\ pc' = IF raised THEN pc ELSE "analyzed"
               /\ main_loop' = [main_loop EXCEPT
                                   !.pc = IF raised THEN "finally"
                                          ELSE "process_frame"]
               /\ run_log' = [run_log EXCEPT
                                   !.exit = IF raised THEN "exception" ELSE @]
        /\ frame_log' = Append(frame_log,
                               [person_count |-> input.person_count,
                                density_score |-> input.density_score,
                                timestamp |-> now])
    /\ UNCHANGED <<now, current_alert_level, last_alert_time, last_log_time,
                   last_image_save, config_vars, analysis_results,
                   current_time, alert_info, email_result, log_outcome,
                   image_outcome, caller, returned, log_vars, csv_vars,
                   scene, alert_thresholds, classified, box_vars, queue_vars,
                   video_processor>>

\* process_frame_check_alerts with a fault: the level of the raw count is
\* handed to the alert evaluation.
process_frame_check_alerts_raw_count ==
    /\ caller = "process_frame"
    /\ main_loop.pc = "process_frame"
    /\ pc = "analyzed"
    /\ check_alerts_on(classify_crowd_level(alert_thresholds,
                            analysis.person_count * FixedPoint),
                       analysis.anomalies)

\* process_frame: alert_info = self.alert_manager.check_alerts(
\* analysis_results), on the analysis of the frame.
process_frame_check_alerts ==
    /\ caller = "process_frame"
    /\ main_loop.pc = "process_frame"
    /\ pc = "analyzed"
    /\ check_alerts_on(analysis.crowd_level, analysis.anomalies)


\* run after process_frame has returned: the data is sent to Convex and,
\* with the display on, the key pressed is handled: 'q' leaves the loop,
\* 'p' pauses, 'r' resets the alert state. The frame period passes before
\* the next frame is there.
run_after_frame ==
    /\ caller = "process_frame"
    /\ main_loop.pc = "process_frame"
    /\ pc = "idle"
    /\ \E key \in Keys :
        /\ key /= "none" => (detector.display_output /\ run_log.keys_left > 0)
        /\ detector' = [detector EXCEPT
                            !.paused = IF key = "p" THEN ~@ ELSE @]
        /\ main_loop' = [main_loop EXCEPT
                            !.pc = IF key = "q" THEN "finally"
                                   ELSE "get_frame"]
        /\ run_log' = [run_log EXCEPT
                            !.sent = _send_data_to_convex(detector, @),
                            !.fired =
                                IF alert_info.alert_triggered
                                THEN [frame |-> detector.frame_count,
                                      alert_level |-> alert_info.alert_level,
                                      time |-> current_time]
                                ELSE @,
                            !.key = key,
                            !.keys_left = IF key = "none" THEN @ ELSE @ - 1,
                            !.exit = IF key = "q" THEN "quit key" ELSE @]
        /\ IF key = "r"
           THEN /\ current_alert_level' = "none"
                /\ last_alert_time' = clear(last_alert_time)
                /\ returned' = EmptyDict
           ELSE UNCHANGED <<current_alert_level, last_alert_time, returned>>
    /\ now' = now + scene.period
    /\ UNCHANGED <<pc, last_log_time, last_image_save, config_vars,
                   analysis_results, current_time, alert_info, email_result,
                   log_outcome, image_outcome, caller, log_vars, csv_vars,
                   analyzer_vars, box_vars, queue_vars, video_processor>>

\* The main loop of run is being executed.
in_loop == main_loop.pc \in {"get_frame", "process_frame"}

\* signal_handler (SIGINT, SIGTERM) at any point of the loop: self.stop()
\* and sys.exit(0), whose SystemExit leaves process_frame and the loop.
signal_handler ==
    /\ caller = "process_frame"
    /\ in_loop
    /\ detector' = [detector EXCEPT !.running = FALSE]
    /\ video_processor' = stop_capture(video_processor)
    /\ main_loop' = [main_loop EXCEPT !.pc = "finally"]
    /\ run_log' = [run_log EXCEPT !.exit = "stop signal"]
    /\ pc' = IF pc = "idle" THEN pc ELSE "left"
    /\ UNCHANGED <<now, current_alert_level, last_alert_time, last_log_time,
                   last_image_save, config_vars, analysis_results,
                   current_time, alert_info, email_result, log_outcome,
                   image_outcome, caller, returned, log_vars, csv_vars,
                   analyzer_vars, box_vars, queue_vars>>

\* KeyboardInterrupt is raised at any point of the loop and leaves
\* process_frame and the loop.
KeyboardInterrupt ==
    /\ caller = "process_frame"
    /\ in_loop
    /\ main_loop' = [main_loop EXCEPT !.pc = "finally"]
    /\ run_log' = [run_log EXCEPT !.exit = "KeyboardInterrupt"]
    /\ pc' = IF pc = "idle" THEN pc ELSE "left"
    /\ UNCHANGED <<now, current_alert_level, last_alert_time, last_log_time,
                   last_image_save, config_vars, analysis_results,
                   current_time, alert_info, email_result, log_outcome,
                   image_outcome, caller, returned, log_vars, csv_vars,
                   analyzer_vars, box_vars, queue_vars, detector,
                   video_processor>>

\* run: finally: self.stop(): running is False and stop_capture is called.
run_finally ==
    /\ caller = "process_frame"
    /\ main_loop.pc = "finally"
    /\ detector' = [detector EXCEPT !.running = FALSE]
    /\ video_processor' = stop_capture(video_processor)
    /\ main_loop' = [main_loop EXCEPT !.pc = "returned"]
    /\ UNCHANGED <<now, manager_vars, log_vars, csv_vars, analyzer_vars,
                   box_vars, queue_vars, run_log>>

\* The initial state but for the caller and the configuration:
\* AlertManager.__init__.
InitState ==
    /\ now = EpochStart
    /\ pc = "idle"
    /\ current_alert_level = "none"
    /\ last_alert_time = EmptyDict
    /\ last_log_time = 0
    /\ last_image_save = 0
    /\ analysis_results = [crowd_level |-> "low", anomalies |-> no_anomalies]
    /\ current_time = 0
    /\ alert_info = alert_info_default
    /\ email_result = "none"
    /\ log_outcome = "pending"
    /\ image_outcome = "pending"
    /\ returned = EmptyDict

\* check_alerts called directly on a new AlertManager, with any
\* configuration of the dispatch channels (logging and image saving, which
\* check_alerts does not use, as configured by default).
Init ==
    /\ InitState
    /\ caller = "direct"
    /\ console_output \in BOOLEAN
    /\ email_enabled \in BOOLEAN
    /\ email_config_complete \in (IF email_enabled THEN BOOLEAN ELSE {FALSE})
    /\ sound_alerts \in BOOLEAN
    /\ log_enabled = TRUE
    /\ save_images = FALSE
    /\ log_format = "csv"
    /\ InitLogFiles
    /\ IdleCsv
    /\ NewAnalyzer
    /\ NoVideo
    /\ NoDetector

Next ==
    \/ tick
    \/ check_alerts
    \/ _execute_alert_actions
    \/ reset_alert_state

Spec == Init /\ [][Next]_vars

\* CrowdDetector.process_frame on a new AlertManager, with any configuration
\* of logging and image saving (the dispatch channels as configured by
\* default: console only).
InitFrame ==
    /\ InitState
    /\ caller = "process_frame"
    /\ console_output = TRUE
    /\ email_enabled = FALSE
    /\ email_config_complete = FALSE
    /\ sound_alerts = FALSE
    /\ log_enabled \in BOOLEAN
    /\ save_images \in BOOLEAN
    /\ log_format = "csv"
    /\ InitLogFiles
    /\ IdleCsv
    /\ NewAnalyzer
    /\ NoVideo
    /\ NoDetector

NextFrame ==
    \/ tick
    \/ check_alerts
    \/ _execute_alert_actions
    \/ log_data
    \/ save_alert_image
    \/ reset_alert_state

SpecFrame == InitFrame /\ [][NextFrame]_vars

\* A caller that only logs, on a log directory that starts empty, with
\* logging enabled or not and either format; the program may be started
\* again, and the calendar day changes during the session.
InitLog ==
    /\ InitState
    /\ caller = "logger"
    /\ console_output = TRUE
    /\ email_enabled = FALSE
    /\ email_config_complete = FALSE
    /\ sound_alerts = FALSE
    /\ log_enabled \in BOOLEAN
    /\ save_images = FALSE
    /\ log_format \in LogFormats
    /\ InitLogFiles
    /\ IdleCsv
    /\ NewAnalyzer
    /\ NoVideo
    /\ NoDetector

NextLog ==
    \/ tick
    \/ AlertManager_init
    \/ log_data_call

SpecLog == InitLog /\ [][NextLog]_vars

\* A new AlertManager configured by default, used by who.
IdleManager(who) ==
    /\ InitState
    /\ caller = who
    /\ console_output = TRUE
    /\ email_enabled = FALSE
    /\ email_config_complete = FALSE
    /\ sound_alerts = FALSE
    /\ log_enabled = TRUE
    /\ save_images = FALSE
    /\ log_format = "csv"
    /\ InitLogFiles

\* One row is written by _log_csv and read back, for any results handed
\* in.
InitCsv ==
    /\ IdleManager("csv")
    /\ NewAnalyzer
    /\ NoVideo
    /\ NoDetector
    /\ row_input \in RowInputs
    /\ line = <<>>
    /\ parsed = new_reader

NextCsv ==
    \/ _log_csv_writerow
    \/ csv_reader_next

SpecCsv == InitCsv /\ [][NextCsv]_vars

\* How many frames a long session analyses (more than the histories
\* hold), how many a short one, how many calm frames were analysed before
\* a session on a scene that was calm so far is followed, and for how many
\* frames it is followed.
MaxFrames == 103

ShortFrames == 5

Warmup == 16

WindowFrames == 6

\* For how many frames a session on a slow source is followed, and one on
\* a clock that stands still.
TrendFrames == 12

StillFrames == 11

\* The analyzer after the first k of n calm frames of the scene s, the
\* last of the n one frame period before EpochStart, with the last result
\* and the inputs so far.
RECURSIVE warmed_up(_, _, _)
warmed_up(k, n, s) ==
    IF k = 0
    THEN [analyzer |-> new_analyzer, results |-> no_analysis, log |-> <<>>]
    ELSE LET before == warmed_up(k - 1, n, s)
             t == EpochStart - (n - k + 1) * s.period
             step == analyze(before.analyzer, s.calm.person_count,
                             s.calm.density_score, t)
         IN  [analyzer |-> step.analyzer,
              results |-> step.results,
              log |-> Append(before.log,
                             [person_count |-> s.calm.person_count,
                              density_score |-> s.calm.density_score,
                              timestamp |-> t])]

\* The sessions followed: a long one with one frame off the baseline, a
\* short one with any frames, one on a scene calm so far with up to four
\* frames off the baseline, one on a slow source showing a larger crowd,
\* calm so far, with up to two frames off it, and one with a frame off the
\* baseline while the clock stands still.
Sessions ==
    {[warmup |-> 0, frames |-> MaxFrames, spikes |-> 1,
      scene |-> [calm |-> baseline, period |-> frame_period]],
     [warmup |-> 0, frames |-> ShortFrames, spikes |-> ShortFrames,
      scene |-> [calm |-> baseline, period |-> frame_period]],
     [warmup |-> Warmup, frames |-> WindowFrames, spikes |-> 4,
      scene |-> [calm |-> baseline, period |-> frame_period]],
     [warmup |-> Warmup, frames |-> TrendFrames, spikes |-> 2,
      scene |-> [calm |-> crowded, period |-> slow_period]],
     [warmup |-> 0, frames |-> StillFrames, spikes |-> 1,
      scene |-> [calm |-> baseline, period |-> 0]]}

InitAnalyzer ==
    /\ IdleManager("analyzer")
    /\ IdleCsv
    /\ NoVideo
    /\ NoDetector
    /\ \E session \in Sessions :
        LET start == warmed_up(session.warmup, session.warmup,
                               session.scene)
        IN  /\ count_history = start.analyzer.count_history
            /\ density_history = start.analyzer.density_history
            /\ time_history = start.analyzer.time_history
            /\ smoothed_count = start.analyzer.smoothed_count
            /\ smoothed_density = start.analyzer.smoothed_density
            /\ analysis = start.results
            /\ frame_log = start.log
            /\ frames_left = session.frames
            /\ spikes_left = session.spikes
            /\ scene = session.scene
            /\ alert_thresholds = start.analyzer.alert_thresholds
            /\ classified = no_classification
            /\ NoBoxes

NextAnalyzer == analyze_crowd

SpecAnalyzer == InitAnalyzer /\ [][NextAnalyzer]_vars

\* The bounds a configured thresholds dictionary holds.
ThresholdValues == {threshold_low, threshold_medium, threshold_medium + 1, threshold_high}

\* The thresholds a configuration supplies: none, a dictionary with the
\* three bounds in any order, or one that lacks some of the keys.
ThresholdConfigs ==
    {no_thresholds}
    \cup {[present |-> TRUE, map |-> t] : t \in [ThresholdKeys -> ThresholdValues]}
    \cup {[present |-> TRUE, map |-> [k \in keys |-> default_thresholds[k]]] :
             keys \in (SUBSET ThresholdKeys) \ {ThresholdKeys}}

\* A new CrowdAnalyzer under any configuration of the thresholds, not
\* driven yet.
Configured ==
    /\ IdleManager("analyzer")
    /\ IdleCsv
    /\ NoVideo
    /\ NoDetector
    /\ \E configured \in ThresholdConfigs :
        alert_thresholds = CrowdAnalyzer_init(configured).alert_thresholds
    /\ count_history = <<>>
    /\ density_history = <<>>
    /\ time_history = <<>>
    /\ smoothed_count = 0
    /\ smoothed_density = 0
    /\ analysis = no_analysis
    /\ frame_log = <<>>
    /\ scene = [calm |-> baseline, period |-> frame_period]
    /\ classified = no_classification
    /\ NoBoxes

\* classify_crowd_level is called any number of times.
InitClassify ==
    /\ Configured
    /\ frames_left = 0
    /\ spikes_left = 0

NextClassify == classify_crowd_level_call

SpecClassify == InitClassify /\ [][NextClassify]_vars

\* How many frames a session under configured thresholds analyses.
ConfiguredFrames == 2

\* Any frames are analysed under the thresholds configured.
InitConfigured ==
    /\ Configured
    /\ frames_left = ConfiguredFrames
    /\ spikes_left = ConfiguredFrames

NextConfigured == analyze_crowd

SpecConfigured == InitConfigured /\ [][NextConfigured]_vars

\* The density methods a configuration names: the two known ones and one
\* that is not known.
DensityMethods == {"bbox_coverage", "spatial_distribution", "grid"}

\* The boxes of a frame are handed to a CrowdAnalyzer configured with any
\* density method, with the frame dimensions set by
\* update_frame_dimensions or not known yet.
InitBoxes ==
    /\ IdleManager("analyzer")
    /\ IdleCsv
    /\ NoVideo
    /\ NoDetector
    /\ count_history = <<>>
    /\ density_history = <<>>
    /\ time_history = <<>>
    /\ smoothed_count = 0
    /\ smoothed_density = 0
    /\ analysis = no_analysis
    /\ frame_log = <<>>
    /\ frames_left = 0
    /\ spikes_left = 0
    /\ scene = [calm |-> baseline, period |-> frame_period]
    /\ alert_thresholds = default_thresholds
    /\ classified = no_classification
    /\ frame_dimensions \in {unknown_dimensions,
                              [width |-> FrameWidth, height |-> FrameHeight]}
    /\ density_method \in DensityMethods
    /\ boxes = <<>>
    /\ density_call = no_density
    /\ heatmap = no_heatmap

NextBoxes ==
    \/ calculate_density_score_call
    \/ generate_density_heatmap_call

SpecBoxes == InitBoxes /\ [][NextBoxes]_vars

\* How many frames the video source delivers at most.
MaxSource == 12

\* After start_capture: the capture thread is started on a source that
\* delivers any number of frames before a read fails.
Capturing ==
    /\ IdleManager("run")
    /\ IdleCsv
    /\ count_history = <<>>
    /\ density_history = <<>>
    /\ time_history = <<>>
    /\ smoothed_count = 0
    /\ smoothed_density = 0
    /\ analysis = no_analysis
    /\ frame_log = <<>>
    /\ frames_left = 0
    /\ spikes_left = 0
    /\ scene = [calm |-> baseline, period |-> frame_period]
    /\ alert_thresholds = default_thresholds
    /\ classified = no_classification
    /\ NoBoxes
    /\ source_left \in 0..MaxSource
    /\ frames_read = 0
    /\ capture_thread = [pc |-> "while", frame |-> 0]
    /\ frame_queue = <<>>
    /\ vp_frame_count = 0
    /\ received = <<>>
    /\ detector = [no_detector EXCEPT !.constructed = "yes",
                                      !.running = TRUE]
    /\ video_processor = [new_video_processor EXCEPT !.running = TRUE,
                                                     !.cap = "open"]
    /\ run_log = no_run

\* CrowdDetector.run after start(): the main loop is entered; nobody stops
\* the run.
InitVideo ==
    /\ Capturing
    /\ main_loop = [pc |-> "get_frame", frame |-> 0]

NextVideo ==
    \/ capture_while
    \/ capture_read
    \/ capture_put_nowait
    \/ capture_frame_count
    \/ run_get_frame
    \/ run_is_running
    \/ run_process_frame

SpecVideo == InitVideo /\ [][NextVideo]_vars

\* The capture thread runs on a source that delivers any number of frames
\* and stop_capture is called at any point of it.
InitStop ==
    /\ Capturing
    /\ main_loop = [pc |-> "stop_capture", frame |-> 0]

NextStop ==
    \/ capture_while
    \/ capture_read
    \/ capture_put_nowait
    \/ capture_frame_count
    \/ stop_capture_running
    \/ stop_capture_join
    \/ stop_capture_release

SpecStop == InitStop /\ [][NextStop]_vars

\* A consumer iterates get_frame_generator while the capture thread runs
\* on a source that delivers any number of frames; nobody calls
\* stop_capture. The capture thread and the consumer both keep running.
InitGenerator ==
    /\ Capturing
    /\ main_loop = [pc |-> "generator", frame |-> 0]

capture_thread_step ==
    \/ capture_while
    \/ capture_read
    \/ capture_put_nowait
    \/ capture_frame_count

generator_step ==
    \/ generator_while
    \/ generator_get_frame

NextGenerator ==
    \/ capture_thread_step
    \/ generator_step

SpecGenerator ==
    /\ InitGenerator
    /\ [][NextGenerator]_vars
    /\ WF_vars(capture_thread_step)
    /\ WF_vars(generator_step)

\* For how many frames a run is followed from its start, and for how many
\* after the calm frames it has processed before; how many calm frames
\* those were; how many of the frames after them may leave the calm
\* scene; how many keys are pressed during the run.
RunFrames == 3

RunWarmFrames == 5

RunWarmup == 16

RunSpikes == 1

RunKeys == 2

\* The last of n frames, one frame period apart, that log_data wrote a
\* record for: the first frame is logged, and then the first frame that
\* is log_interval or more after the one logged last.
last_logged(n) ==
    LET frames_per_record ==
            (log_interval + frame_period - 1) \div frame_period
    IN  1 + frames_per_record * ((n - 1) \div frames_per_record)

\* The thresholds the analyzer of a run is configured with: the default
\* ones, or a dictionary that lacks 'high'.
RunThresholds ==
    {default_thresholds,
     [k \in {"low", "medium"} |-> default_thresholds[k]]}

\* A CrowdDetector is constructed and run from its start, on any of the
\* thresholds; or a run configured by default is followed after it has
\* processed RunWarmup calm frames, one frame period apart, the last one
\* a frame period ago.
InitRun ==
    /\ now = EpochStart
    /\ pc = "idle"
    /\ caller = "process_frame"
    /\ current_alert_level = "none"
    /\ last_alert_time = EmptyDict
    /\ last_image_save = 0
    /\ analysis_results = [crowd_level |-> "low", anomalies |-> no_anomalies]
    /\ alert_info = alert_info_default
    /\ email_result = "none"
    /\ returned = EmptyDict
    /\ console_output = TRUE
    /\ email_enabled = FALSE
    /\ email_config_complete = FALSE
    /\ sound_alerts = FALSE
    /\ log_enabled = TRUE
    /\ save_images = FALSE
    /\ log_format = "csv"
    /\ InitLogFiles
    /\ IdleCsv
    /\ NoBoxes
    /\ source_left = 0
    /\ frames_read = 0
    /\ capture_thread = not_started
    /\ frame_queue = <<>>
    /\ vp_frame_count = 0
    /\ received = <<>>
    /\ classified = no_classification
    /\ scene = [calm |-> baseline, period |-> frame_period]
    /\ \/ /\ current_time = 0
          /\ main_loop = not_started
          /\ last_log_time = 0
          /\ log_outcome = "pending"
          /\ image_outcome = "pending"
          /\ alert_thresholds \in RunThresholds
          /\ count_history = <<>>
          /\ density_history = <<>>
          /\ time_history = <<>>
          /\ smoothed_count = 0
          /\ smoothed_density = 0
          /\ analysis = no_analysis
          /\ frame_log = <<>>
          /\ frames_left = RunFrames
          /\ spikes_left = RunFrames
          /\ detector = no_detector
          /\ video_processor = new_video_processor
          /\ run_log = [no_run EXCEPT !.keys_left = RunKeys]
       \/ LET start == warmed_up(RunWarmup, RunWarmup, scene)
              last == EpochStart - frame_period
          IN  /\ current_time = last
              /\ main_loop = [pc |-> "get_frame", frame |-> 0]
              /\ last_log_time
                 = last - (RunWarmup - last_logged(RunWarmup)) * frame_period
              /\ log_outcome = IF last_log_time = last THEN "written"
                               ELSE "not_due"
              /\ image_outcome = "not_called"
              /\ alert_thresholds = default_thresholds
              /\ count_history = start.analyzer.count_history
              /\ density_history = start.analyzer.density_history
              /\ time_history = start.analyzer.time_history
              /\ smoothed_count = start.analyzer.smoothed_count
              /\ smoothed_density = start.analyzer.smoothed_density
              /\ analysis = start.results
              /\ frame_log = start.log
              /\ frames_left = RunWarmFrames
              /\ spikes_left = RunSpikes
              /\ \E display \in BOOLEAN, convex \in BOOLEAN :
                  /\ detector =
                        [CrowdDetector_fields(convex, convex, display)
                            EXCEPT !.running = TRUE,
                                   !.frame_count = RunWarmup]
                  /\ run_log =
                        [no_run EXCEPT
                            !.keys_left = RunKeys,
                            !.sent = IF convex THEN RunWarmup ELSE 0,
                            !.logged =
                                [frame |-> last_logged(RunWarmup),
                                 alert_level |-> "none",
                                 crowd_level |-> "low"]]
              /\ video_processor =
                    [new_video_processor EXCEPT !.running = TRUE,
                                                !.cap = "open"]

NextRun ==
    \/ CrowdDetector_init
    \/ run_start
    \/ run_end_of_stream
    \/ run_paused_frame
    \/ run_frame
    \/ process_frame_check_alerts
    \/ _execute_alert_actions
    \/ log_data
    \/ save_alert_image
    \/ run_after_frame
    \/ signal_handler
    \/ KeyboardInterrupt
    \/ run_finally

SpecRun == InitRun /\ [][NextRun]_vars

\* ------------------------------------------------------------ properties

ThresholdLevels == {"high", "critical"}

\* Some key of the anomalies dictionary is flagged.
any_flag(anomalies) == \E k \in DOMAIN anomalies : anomalies[k]

\* The timestamp dictionary d holds for kind k, or -1 when it holds none.
stamp_of(d, k) == IF k \in DOMAIN d THEN d[k] ELSE -1

\* Kind k has no timestamp in d, or its timestamp is at least the cooldown
\* before time t.
cooldown_elapsed(d, k, t) == k \notin DOMAIN d \/ t - d[k] >= alert_cooldown

\* The entries of a list.
Range(seq) == {seq[i] : i \in DOMAIN seq}

\* C1. Cooldown safety: an evaluation made less than alert_cooldown after
\* the last evaluation that returned a triggered alert of threshold level L
\* (no reset_alert_state in between) does not return a triggered alert of
\* level L, and returns no alert at all when it is at level L with no
\* anomaly flag set.
C1_CooldownSafety ==
    [][check_alerts =>
        \A L \in ThresholdLevels :
            (L \in DOMAIN returned /\ now - returned[L] < alert_cooldown)
            => /\ ~(alert_info'.alert_triggered /\ alert_info'.alert_level = L)
               /\ (analysis_results'.crowd_level = L
                   /\ analysis_results'.anomalies = no_anomalies)
                  => ~alert_info'.alert_triggered]_vars

\* C1 witness: an evaluation at level high with no anomaly flag, 59 s after
\* a triggered high alert, has returned without an alert.
C1_Witness ==
    /\ pc = "checked"
    /\ analysis_results.crowd_level = "high"
    /\ analysis_results.anomalies = no_anomalies
    /\ "high" \in DOMAIN returned
    /\ current_time - returned["high"] = alert_cooldown - 1
    /\ ~alert_info.alert_triggered

\* C2. Threshold trigger rule: an evaluation at time t with crowd level L in
\* {high, critical} whose level has no timestamp or one at least
\* alert_cooldown old triggers a threshold alert of level L and sets
\* last_alert_time[L] = t; the dispatch leaves these fields of the result
\* and the timestamp as they are.
C2_ThresholdTrigger ==
    [][/\ check_alerts =>
            \A L \in ThresholdLevels :
                (analysis_results'.crowd_level = L
                 /\ cooldown_elapsed(last_alert_time, L, now))
                => /\ alert_info'.alert_triggered
                   /\ alert_info'.alert_type = "threshold"
                   /\ alert_info'.alert_level = L
                   /\ stamp_of(last_alert_time', L) = now
       /\ _execute_alert_actions =>
            /\ alert_info'.alert_triggered = alert_info.alert_triggered
            /\ alert_info'.alert_type = alert_info.alert_type
            /\ alert_info'.alert_level = alert_info.alert_level
            /\ last_alert_time' = last_alert_time]_vars

\* C2 witness: a high alert triggers again exactly alert_cooldown after the
\* last returned high alert.
C2_Witness ==
    /\ pc = "dispatch"
    /\ alert_info.alert_triggered
    /\ alert_info.alert_level = "high"
    /\ "high" \in DOMAIN returned
    /\ current_time - returned["high"] = alert_cooldown
    /\ last_alert_time["high"] = current_time

\* C3. Prioritization: when the threshold candidate and the anomaly
\* candidate both qualify, the result is the threshold alert: type
\* threshold, level the crowd level, the threshold alert's message.
C3_ThresholdWins ==
    [][check_alerts =>
        ((analysis_results'.crowd_level \in ThresholdLevels
          /\ cooldown_elapsed(last_alert_time,
                              analysis_results'.crowd_level, now)
          /\ any_flag(analysis_results'.anomalies)
          /\ cooldown_elapsed(last_alert_time, "anomaly", now))
         => /\ alert_info'.alert_triggered
            /\ alert_info'.alert_type = "threshold"
            /\ alert_info'.alert_level = analysis_results'.crowd_level
            /\ alert_info'.message =
                   <<title(analysis_results'.crowd_level),
                     "crowd density detected">>)]_vars

\* C3 witness: a threshold alert is about to be dispatched for an evaluation
\* in which the anomaly candidate qualified as well (it stamped its time).
C3_Witness ==
    /\ pc = "dispatch"
    /\ alert_info.alert_type = "threshold"
    /\ any_flag(analysis_results.anomalies)
    /\ stamp_of(last_alert_time, "anomaly") = current_time
    /\ stamp_of(returned, "anomaly") # current_time

\* C4. When both candidates qualify and the threshold alert wins, the
\* evaluation leaves last_alert_time['anomaly'] as it was.
C4_SuppressedAnomalyKeepsCooldown ==
    [][check_alerts =>
        ((analysis_results'.crowd_level \in ThresholdLevels
          /\ cooldown_elapsed(last_alert_time,
                              analysis_results'.crowd_level, now)
          /\ any_flag(analysis_results'.anomalies)
          /\ cooldown_elapsed(last_alert_time, "anomaly", now))
         => stamp_of(last_alert_time', "anomaly")
                = stamp_of(last_alert_time, "anomaly"))]_vars

\* C5. A triggered alert of kind K sets only last_alert_time[K]: the
\* timestamps of the other kinds are left as they were.
C5_OnlyOwnTimestamp ==
    [][check_alerts =>
        (alert_info'.alert_triggered
         => \A J \in AlertKinds \ {alert_info'.alert_level} :
                stamp_of(last_alert_time', J) = stamp_of(last_alert_time, J))]_vars

\* C6. Anomaly trigger rule: an evaluation in which no threshold alert
\* triggers returns an anomaly alert if and only if some anomaly flag is set
\* and no anomaly alert has been returned since start/reset or the last
\* returned one is at least alert_cooldown old.
C6_AnomalyTrigger ==
    [][check_alerts =>
        (alert_info'.alert_type # "threshold"
         => ((/\ alert_info'.alert_triggered
              /\ alert_info'.alert_type = "anomaly"
              /\ alert_info'.alert_level = "anomaly")
             <=> (/\ any_flag(analysis_results'.anomalies)
                  /\ cooldown_elapsed(returned, "anomaly", now))))]_vars

\* C7. Alert result well-formedness: a threshold alert only at crowd level
\* high or critical; a result that is not triggered has level none, type
\* none, an empty message and no actions; a triggered one is (threshold,
\* high|critical) or (anomaly, anomaly); when check_alerts has returned,
\* current_alert_level is the returned alert_level.
C7_WellFormed ==
    /\ alert_info.alert_type = "threshold"
       => analysis_results.crowd_level \in ThresholdLevels
    /\ ~alert_info.alert_triggered
       => /\ alert_info.alert_level = "none"
          /\ alert_info.alert_type = "none"
          /\ alert_info.message = <<>>
          /\ alert_info.actions_taken = <<>>
    /\ alert_info.alert_triggered
       => \/ /\ alert_info.alert_type = "threshold"
             /\ alert_info.alert_level \in ThresholdLevels
          \/ /\ alert_info.alert_type = "anomaly"
             /\ alert_info.alert_level = "anomaly"
    /\ pc = "checked" => current_alert_level = alert_info.alert_level

\* C7 witness: at crowd level medium an anomaly alert has been returned,
\* after a high alert had been returned earlier in the session.
C7_Witness ==
    /\ pc = "checked"
    /\ analysis_results.crowd_level = "medium"
    /\ alert_info.alert_triggered
    /\ alert_info.alert_type = "anomaly"
    /\ current_alert_level = "anomaly"
    /\ "high" \in DOMAIN returned

\* C8. The cooldown timestamp is stamped at trigger time: while the dispatch
\* of an alert of kind K evaluated at time t runs, and when it has returned
\* whatever the channels did, last_alert_time[K] = t; and an alert of kind K
\* is dispatched only if the last returned alert of kind K (since
\* start/reset) was evaluated at least alert_cooldown earlier.
C8_StampedAtTrigger ==
    /\ pc = "dispatch"
       => /\ alert_info.alert_triggered
          /\ stamp_of(last_alert_time, alert_info.alert_level) = current_time
          /\ cooldown_elapsed(returned, alert_info.alert_level, current_time)
    /\ (pc = "checked" /\ alert_info.alert_triggered)
       => stamp_of(last_alert_time, alert_info.alert_level) = current_time

\* C8 witness: a dispatch has been running for a whole cooldown, and the
\* timestamp of its alert is the time of the evaluation.
C8_Witness ==
    /\ pc = "dispatch"
    /\ now - current_time >= alert_cooldown
    /\ stamp_of(last_alert_time, alert_info.alert_level) = current_time

\* C9. A failed e-mail send (incomplete configuration or transport error)
\* never leaves check_alerts as an exception: the evaluation returns
\* alert_triggered = true and actions_taken holds 'email_failed', not
\* 'email_sent', with 'console_output' before it and 'sound_alert' after it
\* exactly when those channels are enabled.
C9_EmailFailureContained ==
    /\ pc # "raised"
    /\ (pc = "checked" /\ email_result \in {"incomplete", "error"})
       => /\ alert_info.alert_triggered
          /\ alert_info.actions_taken =
                (IF console_output THEN <<"console_output">> ELSE <<>>)
                \o <<"email_failed">>
                \o (IF sound_alerts THEN <<"sound_alert">> ELSE <<>>)

\* C9 witness: the transport failed with console and sound enabled, and all
\* three actions are recorded.
C9_Witness ==
    /\ pc = "checked"
    /\ email_result = "error"
    /\ alert_info.alert_triggered
    /\ alert_info.actions_taken
           = <<"console_output", "email_failed", "sound_alert">>

\* The names _execute_alert_actions records.
DispatchActions == {"console_output", "email_sent", "email_failed",
                    "sound_alert"}

\* C10. For a triggered alert, a failed image save or a failed log write of
\* the frame appears in the result's actions_taken, beside the dispatch
\* channels' entries.
C10_FailuresRecorded ==
    (/\ pc = "idle"
     /\ alert_info.alert_triggered
     /\ (image_outcome = "failed" \/ log_outcome = "failed"))
    => \E a \in Range(alert_info.actions_taken) : a \notin DispatchActions

\* ------------------------------------------------- properties of logging

\* The records persisted in the log directory fs: artifact and row number.
persisted(fs) ==
    UNION {{<<d, i>> : i \in {j \in DOMAIN fs[d].rows :
                                 fs[d].rows[j].kind = "data"}} :
           d \in DOMAIN fs}

\* The rows of all artifacts of the log directory fs.
all_rows(fs) == UNION {Range(fs[d].rows) : d \in DOMAIN fs}

\* Any two records persisted by one manager are at least log_interval
\* apart.
session_rows_apart(fs) ==
    \A p, q \in persisted(fs) :
        LET r1 == fs[p[1]].rows[p[2]]
            r2 == fs[q[1]].rows[q[2]]
        IN  (p /= q /\ r1.session = r2.session)
            => (r1.timestamp - r2.timestamp >= log_interval
                \/ r2.timestamp - r1.timestamp >= log_interval)

\* C11. Logging rate limit: a log_data call persists a record only if
\* logging is enabled and at least log_interval has passed since the last
\* call that fired; the first call of a session fires; a call less than
\* log_interval after one that fired changes nothing, so the records of a
\* session are at least log_interval apart and a call that fires adds
\* exactly one record when its append succeeds; with logging disabled no
\* call persists anything.
C11_LogRateLimit ==
    [][log_data_call =>
        LET before == Cardinality(persisted(files))
            after == Cardinality(persisted(files'))
            elapsed == now - last_log_time >= log_interval
            fired == last_log_time' = now /\ log_outcome' \in {"written", "failed"}
        IN  /\ after > before => (log_enabled /\ elapsed)
            /\ (log_enabled /\ last_log_time = 0) => fired
            /\ (log_enabled /\ elapsed) => fired
            /\ (log_enabled /\ ~elapsed)
               => (files' = files /\ last_log_time' = last_log_time)
            /\ log_outcome' = "written" => after = before + 1
            /\ log_outcome' /= "written" => after <= before
            /\ ~log_enabled => (files' = files /\ log_outcome' = "disabled")
            /\ session_rows_apart(files')]_vars

\* C11 witness: a second call at the clock reading of a call that fired
\* and persisted its record has returned without writing.
C11_Witness ==
    /\ log_outcome = "not_due"
    /\ last_log_time = now
    /\ \E r \in all_rows(files) :
        r.kind = "data" /\ r.timestamp = now /\ r.session = instances

\* C12. Log rotation by calendar day: every persisted record is in the
\* artifact named after the calendar day of the record's own timestamp, so
\* records logged after midnight are in the new day's artifact.
C12_RecordsInOwnDayFile ==
    \A d \in DOMAIN files :
        \A i \in DOMAIN files[d].rows :
            files[d].rows[i].kind = "data"
            => strftime_Ymd(files[d].rows[i].timestamp) = d

\* C13. Header exactly once: a CSV artifact has the header as its first
\* row and nowhere else, however many managers were constructed and
\* however many log_data calls were made; a JSON artifact has no header.
C13_HeaderOnce ==
    \A d \in DOMAIN files :
        LET rows == files[d].rows
        IN  IF log_format = "csv"
            THEN /\ Len(rows) >= 1
                 /\ rows[1] = header_row
                 /\ \A i \in 2..Len(rows) : rows[i].kind /= "header"
            ELSE \A i \in DOMAIN rows : rows[i].kind /= "header"

\* C13 witness: a CSV artifact holds records of two managers constructed on
\* its day.
C13_Witness ==
    /\ log_format = "csv"
    /\ instances = 2
    /\ log_file = 0
    /\ \E i, j \in DOMAIN files[0].rows :
        /\ files[0].rows[i].kind = "data" /\ files[0].rows[i].session = 1
        /\ files[0].rows[j].kind = "data" /\ files[0].rows[j].session = 2

\* C14. Log failure containment: a log_data call whose append fails
\* returns normally and leaves the alert state as it was, and later calls
\* are logged as usual: a call that is due and meets no I/O fault persists
\* its record.
C14_LogFailureContained ==
    [][log_data_call =>
        /\ pc' = pc
        /\ current_alert_level' = current_alert_level
        /\ last_alert_time' = last_alert_time
        /\ (log_due(log_enabled, now, last_log_time) /\ log_fault' = "none")
           => log_outcome' = "written"]_vars

\* C15. Image rate limit and independence: process_frame saves an image
\* only for a frame whose evaluation returned a triggered alert, with image
\* saving enabled and at least image_interval after the last image saved
\* (last_image_save changes only when an image is saved, to the time of
\* the save); log_data never changes last_image_save and save_alert_image
\* never changes last_log_time.
C15_ImageRateLimit ==
    [][/\ save_alert_image =>
            /\ image_outcome' = "saved"
               => /\ alert_info.alert_triggered
                  /\ save_images
                  /\ now - last_image_save >= image_interval
                  /\ last_image_save' = now
            /\ last_log_time' = last_log_time
       /\ log_data => last_image_save' = last_image_save
       /\ last_image_save' /= last_image_save
          => (save_alert_image /\ image_outcome' = "saved")]_vars

\* C15 witness: an image was saved for a frame whose record was not due,
\* after an earlier frame at the same clock reading was logged and failed
\* to save its image.
C15_Witness ==
    /\ pc = "idle"
    /\ image_outcome = "saved"
    /\ last_image_save = now
    /\ log_outcome = "not_due"
    /\ last_log_time = now
    /\ alert_info.alert_triggered

\* C16. CSV round trip: the row _log_csv appends, read back by csv.reader,
\* has 16 fields of which the third is the decimal person_count that was
\* passed, the seventh the crowd_level that was passed and the eighth the
\* alert_level that was passed, 'none' when no alert info was passed.
C16_CsvRoundTrip ==
    parsed.state = "done" =>
        /\ Len(parsed.fields) = 16
        /\ int_str(parsed.fields[3])
           = row_input.analysis_results.person_count
        /\ parsed.fields[7] = row_input.analysis_results.crowd_level
        /\ parsed.fields[8] = IF row_input.alert_info.passed
                              THEN row_input.alert_info.alert_level
                              ELSE <<"none">>

\* C16 witness: a row with a three digit count, a crowd level holding a
\* comma (so the line is not the plain joining of its fields) and no alert
\* info was written and read back.
C16_Witness ==
    /\ parsed.state = "done"
    /\ row_input.analysis_results.person_count = 120
    /\ row_input.analysis_results.crowd_level = <<"a", ",", "b">>
    /\ ~row_input.alert_info.passed
    /\ parsed.fields[8] = <<"none">>
    /\ line /= join(<<",">>, log_row(row_input.analysis_results,
                                     row_input.alert_info, now))
                \o <<"\r", "\n">>

\* -------------------------------------------- properties of the analyzer

\* C17. Histories in step: after k calls of analyze_crowd the three
\* histories have the same length min(k, 100) and entry i of each is the
\* count, density and timestamp of one frame: they hold the most recent
\* min(k, 100) frames in order, the oldest evicted first.
C17_HistoriesInStep ==
    LET k == Len(frame_log)
        m == IF k < maxlen THEN k ELSE maxlen
    IN  /\ Len(count_history) = m
        /\ Len(density_history) = m
        /\ Len(time_history) = m
        /\ \A i \in 1..m :
            /\ count_history[i] = frame_log[k - m + i].person_count
            /\ density_history[i] = frame_log[k - m + i].density_score
            /\ time_history[i] = frame_log[k - m + i].timestamp

\* C17 witness: two frames have been evicted and a frame off the baseline
\* is still held.
C17_Witness ==
    /\ Len(frame_log) = maxlen + 2
    /\ \E i \in DOMAIN count_history :
        count_history[i] /= baseline.person_count

\* C18. Smoother seeded once: the first analyze_crowd of a session sets
\* the smoothed count and density to the raw values; every later one,
\* whatever the raw values (a raw count of 0 on the first or a later frame
\* included), sets each to alpha * raw + (1 - alpha) * previous.
C18_SeededOnce ==
    [][analyze_crowd =>
        LET raw_count == analysis'.person_count * FixedPoint
            raw_density == analysis'.density_score * FixedPoint
        IN  IF frame_log = <<>>
            THEN /\ smoothed_count' = raw_count
                 /\ smoothed_density' = raw_density
            ELSE /\ smoothed_count' = ema(raw_count, smoothed_count)
                 /\ smoothed_density' = ema(raw_density, smoothed_density)]_vars

\* C19. No anomaly before 20 samples: while the history holds fewer than
\* 20 samples (the frame just analysed included) every anomaly flag of the
\* result is false, whatever the frame, and the result triggers no anomaly
\* alert.
C19_NoAnomalyBeforeTwentySamples ==
    (Len(frame_log) >= 1 /\ Len(count_history) < anomaly_samples)
    => /\ analysis.anomalies = no_anomalies
       /\ ~_check_anomaly_alerts(EmptyDict, analysis.anomalies,
                                 now).info.alert_triggered

\* C19 witness: the 19th frame of a scene calm so far shows 60 persons at
\* density 9 and nothing is flagged.
C19_Witness ==
    /\ Len(frame_log) = anomaly_samples - 1
    /\ \A i \in 1..(anomaly_samples - 2) : frame_log[i] = [person_count |->
            baseline.person_count, density_score |-> baseline.density_score,
            timestamp |-> frame_log[i].timestamp]
    /\ analysis.person_count = 60
    /\ analysis.density_score = 9
    /\ analysis.anomalies = no_anomalies

\* The sum of the squares of xs.
sum_squares(xs) == sum([i \in DOMAIN xs |-> xs[i] * xs[i]])

\* The samples xs have a positive standard deviation and current is more
\* than two of them from their mean: with n samples of sum S and sum of
\* squares Q the variance is (n * Q - S^2) / n^2 and the distance from the
\* mean (n * current - S) / n.
two_deviations_apart(xs, current) ==
    LET n == Len(xs)
        S == sum(xs)
        variance == n * sum_squares(xs) - S * S
    IN  /\ variance > 0
        /\ (n * current - S) * (n * current - S) > 4 * variance

\* C20. Z-score rule: with at least 20 samples, count_anomaly is flagged
\* exactly when the 20 most recent counts have a positive standard
\* deviation and the current count is more than 2 standard deviations from
\* their mean (never when they are all equal); density_anomaly likewise on
\* the densities.
C20_ZScoreRule ==
    Len(frame_log) >= anomaly_samples =>
        LET first == Len(frame_log) - anomaly_samples
            counts == [i \in 1..anomaly_samples |->
                          frame_log[first + i].person_count]
            densities == [i \in 1..anomaly_samples |->
                             frame_log[first + i].density_score]
        IN  /\ analysis.anomalies["count_anomaly"]
               <=> two_deviations_apart(counts, analysis.person_count)
            /\ analysis.anomalies["density_anomaly"]
               <=> two_deviations_apart(densities, analysis.density_score)
            /\ (\A i \in 1..anomaly_samples : counts[i] = counts[1])
               => ~analysis.anomalies["count_anomaly"]
            /\ (\A i \in 1..anomaly_samples : densities[i] = densities[1])
               => ~analysis.anomalies["density_anomaly"]

\* C20 witness: the current count is exactly 2 standard deviations from
\* the mean of the 20 most recent counts and is not flagged, while the
\* current density is flagged.
C20_Witness ==
    /\ Len(count_history) >= anomaly_samples
    /\ LET counts == recent(count_history, anomaly_samples)
           n == Len(counts)
           S == sum(counts)
       IN  (n * analysis.person_count - S) * (n * analysis.person_count - S)
           = 4 * (n * sum_squares(counts) - S * S)
    /\ analysis.person_count /= baseline.person_count
    /\ ~analysis.anomalies["count_anomaly"]
    /\ analysis.anomalies["density_anomaly"]

\* C21. Sudden change rule: with at least 20 samples, sudden_change is
\* flagged exactly when the count of the current frame differs from the
\* count of the frame before it by more than 10 and by more than 0.3 times
\* the mean of the 20 most recent counts, that is by more than the larger
\* of the two; the count compared with is the previous frame's raw count.
C21_SuddenChangeRule ==
    Len(frame_log) >= anomaly_samples =>
        LET k == Len(frame_log)
            change == abs_diff(frame_log[k].person_count,
                               frame_log[k - 1].person_count)
            total == sum([i \in 1..anomaly_samples |->
                             frame_log[k - anomaly_samples + i].person_count])
        IN  analysis.anomalies["sudden_change"]
            <=> (change > 10 /\ 200 * change > 3 * total)

\* C21 witness: with at least 20 samples the count has changed by more
\* than 10 from the previous frame but by less than 0.3 times the mean,
\* and no sudden change is flagged.
C21_Witness ==
    /\ Len(frame_log) >= anomaly_samples
    /\ abs_diff(analysis.person_count,
                frame_log[Len(frame_log) - 1].person_count) > 10
    /\ ~analysis.anomalies["sudden_change"]

\* The last k frames analysed.
last_frames(k) == SubSeq(frame_log, Len(frame_log) - k + 1, Len(frame_log))

\* Over all pairs of samples, the products of the difference of their xs
\* and the difference of their ys, summed.
pair_products(xs, ys) ==
    LET n == Len(xs)
    IN  sum([i \in 1..n |->
            sum([j \in 1..n |->
                IF i < j THEN (xs[j] - xs[i]) * (ys[j] - ys[i]) ELSE 0])])

\* rate is the slope of the least squares line through the points
\* (ts[i], ys[i] / unit): the fraction of pair_products(ts, ys) over unit
\* times pair_products(ts, ts); 0 when the ts are all equal; not a number
\* when only the ys are.
is_slope(rate, ts, ys, unit) ==
    IF pair_products(ts, ts) = 0
    THEN ~rate.nan /\ rate.num = 0
    ELSE IF pair_products(ys, ys) = 0
    THEN rate.nan
    ELSE /\ ~rate.nan
         /\ rate.num = pair_products(ts, ys)
         /\ rate.den = unit * pair_products(ts, ts)

\* The label of the slope of the least squares line through the points
\* (ts[i], ys[i] / unit).
slope_label(ts, ys, unit) ==
    IF 2 * pair_products(ts, ys) > unit * pair_products(ts, ts)
    THEN "increasing"
    ELSE IF 2 * pair_products(ts, ys) < -unit * pair_products(ts, ts)
    THEN "decreasing"
    ELSE "stable"

\* C22. Trend window: with fewer than 10 samples in the history both
\* trends are 'stable' and both rates 0.0; with 10 or more the rates and
\* labels are those of the 10 most recent frames alone, whatever the
\* frames before them were.
C22_TrendWindow ==
    Len(frame_log) >= 1 =>
        IF Len(count_history) < 10
        THEN /\ analysis.trends.count_trend = "stable"
             /\ analysis.trends.density_trend = "stable"
             /\ analysis.trends.count_rate = zero_rate
             /\ analysis.trends.density_rate = zero_rate
        ELSE LET window == last_frames(10)
                 ts == [i \in 1..10 |-> window[i].timestamp]
                 counts == [i \in 1..10 |-> window[i].person_count]
                 densities == [i \in 1..10 |-> window[i].density_score]
             IN  /\ is_slope(analysis.trends.count_rate, ts, counts, 1)
                 /\ is_slope(analysis.trends.density_rate, ts, densities, 10)
                 /\ analysis.trends.count_trend = slope_label(ts, counts, 1)
                 /\ analysis.trends.density_trend
                    = slope_label(ts, densities, 10)

\* C22 witness: a frame off the calm scene is older than the 10 most
\* recent frames and the count of the current frame gives a decreasing
\* trend.
C22_Witness ==
    /\ Len(frame_log) > 10
    /\ \E i \in 1..(Len(frame_log) - 10) :
        frame_log[i].person_count /= scene.calm.person_count
    /\ analysis.person_count /= scene.calm.person_count
    /\ analysis.trends.count_trend = "decreasing"

\* The rate is more than 0.5, and less than -0.5.
above_half(rate) == ~rate.nan /\ 2 * rate.num > rate.den

below_minus_half(rate) == ~rate.nan /\ 2 * rate.num < -rate.den

\* The label belongs to the rate.
label_of_rate(label, rate) ==
    /\ label \in {"increasing", "decreasing", "stable"}
    /\ label = "increasing" <=> above_half(rate)
    /\ label = "decreasing" <=> below_minus_half(rate)

\* C23. Trend label: each trend is 'increasing' exactly when its rate is
\* more than 0.5, 'decreasing' exactly when it is less than -0.5 and
\* 'stable' otherwise, a rate of exactly 0.5 or -0.5 included; when the 10
\* timestamps of the window are all the same the rates are 0.0 and the
\* labels 'stable'.
C23_TrendLabels ==
    Len(frame_log) >= 1 =>
        /\ label_of_rate(analysis.trends.count_trend,
                         analysis.trends.count_rate)
        /\ label_of_rate(analysis.trends.density_trend,
                         analysis.trends.density_rate)
        /\ (/\ Len(frame_log) >= 10
            /\ \A i \in 1..10 :
                last_frames(10)[i].timestamp = analysis.timestamp)
           => /\ analysis.trends.count_rate = zero_rate
              /\ analysis.trends.density_rate = zero_rate
              /\ analysis.trends.count_trend = "stable"
              /\ analysis.trends.density_trend = "stable"

\* C23 witness: the count rate is exactly 0.5 and the count trend is
\* 'stable'.
C23_Witness ==
    /\ Len(frame_log) >= 10
    /\ ~analysis.trends.count_rate.nan
    /\ 2 * analysis.trends.count_rate.num = analysis.trends.count_rate.den
    /\ analysis.trends.count_trend = "stable"

\* The thresholds dictionary has the three bounds, and has them in
\* ascending order.
complete(thresholds) == DOMAIN thresholds = ThresholdKeys

ascending(thresholds) ==
    /\ complete(thresholds)
    /\ thresholds["low"] < thresholds["medium"]
    /\ thresholds["medium"] < thresholds["high"]

\* The place of a crowd level in the order low < medium < high < critical.
rank(level) ==
    CASE level = "low" -> 1
      [] level = "medium" -> 2
      [] level = "high" -> 3
      [] level = "critical" -> 4
      [] OTHER -> 0

\* C24. Half-open intervals: under thresholds low < medium < high a count
\* below low is 'low', one from low up to but not including medium is
\* 'medium', one from medium up to but not including high is 'high' and
\* one of high or more is 'critical', so a count equal to a bound falls in
\* the higher bucket; and of two counts the larger never gets the lower
\* level.
C24_HalfOpenIntervals ==
    (ascending(alert_thresholds) /\ classified.level /= "none") =>
        LET count == classified.person_count
            low == alert_thresholds["low"]
            medium == alert_thresholds["medium"]
            high == alert_thresholds["high"]
        IN  /\ count < low => classified.level = "low"
            /\ (low <= count /\ count < medium)
               => classified.level = "medium"
            /\ (medium <= count /\ count < high)
               => classified.level = "high"
            /\ count >= high => classified.level = "critical"
            /\ (/\ classified.before.level /= "none"
                /\ classified.before.person_count <= count)
               => rank(classified.before.level) <= rank(classified.level)

\* C24 witness: under ascending thresholds a count equal to the medium
\* bound is classified 'high', after a smaller count was classified
\* 'medium'.
C24_Witness ==
    /\ ascending(alert_thresholds)
    /\ classified.person_count = alert_thresholds["medium"]
    /\ classified.level = "high"
    /\ classified.before.level = "medium"

\* C25. Thresholds in any order: for a thresholds dictionary with the
\* three bounds in any order, equal bounds included, every count gets one
\* of the four levels and nothing is raised: 'low' when the count is
\* below low, else 'medium' when it is below medium, else 'high' when it
\* is below high, else 'critical'.
C25_AnyOrder ==
    (complete(alert_thresholds) /\ classified.level /= "none") =>
        LET count == classified.person_count
        IN  /\ classified.level \in CrowdLevels
            /\ classified.level =
                   IF count < alert_thresholds["low"] THEN "low"
                   ELSE IF count < alert_thresholds["medium"] THEN "medium"
                   ELSE IF count < alert_thresholds["high"] THEN "high"
                   ELSE "critical"

\* C25 witness: low is above medium, and a count between the two is
\* classified 'low'.
C25_Witness ==
    /\ complete(alert_thresholds)
    /\ alert_thresholds["medium"] < alert_thresholds["low"]
    /\ classified.level = "low"
    /\ classified.person_count >= alert_thresholds["medium"]

\* C26. Malformed thresholds fall back: when the thresholds dictionary
\* configured lacks a bound, analyze_crowd raises nothing and classifies
\* every frame as the default thresholds (20, 50, 100) do.
C26_MalformedFallsBack ==
    (Len(frame_log) >= 1 /\ ~complete(alert_thresholds)) =>
        /\ analysis.raised = "none"
        /\ analysis.crowd_level
           = classify_crowd_level(default_thresholds, smoothed_count)

\* ------------------------------- properties of the density and heatmap

\* The pixels of the frame that a box covers.
pixels(box) ==
    {p \in (0..(frame_dimensions.width - 1))
           \X (0..(frame_dimensions.height - 1)) :
        /\ box[1] <= p[1] /\ p[1] < box[3]
        /\ box[2] <= p[2] /\ p[2] < box[4]}

\* The box added by the last call lies inside the area the boxes before it
\* cover.
added_inside_covered ==
    /\ density_call.added /= <<>>
    /\ pixels(boxes[Len(boxes)])
       \subseteq UNION {pixels(boxes[i]) : i \in 1..(Len(boxes) - 1)}

\* C27. Density score within [0, 1]: whatever the boxes (partly or wholly
\* outside the frame, overlapping, empty) and the density method, the
\* score of calculate_density_score is at least 0 and at most 1; it is 0
\* for an empty list of boxes and while the frame dimensions are not
\* known; and with bbox_coverage a box added inside the area already
\* covered leaves the score as it was.
C27_DensityInUnitInterval ==
    density_call.called =>
        /\ density_call.score.den > 0
        /\ 0 <= density_call.score.num
        /\ density_call.score.num <= density_call.score.den
        /\ (boxes = <<>> \/ frame_dimensions = unknown_dimensions)
           => density_call.score.num = 0
        /\ (/\ density_method /= "spatial_distribution"
            /\ frame_dimensions /= unknown_dimensions
            /\ density_call.before.called
            /\ added_inside_covered)
           => density_call.score.num * density_call.before.score.den
              = density_call.before.score.num * density_call.score.den

\* C27 witness: with bbox_coverage a box with pixels of its own was added
\* inside the area already covered, and the score, more than 0, is what
\* it was.
C27_Witness ==
    /\ density_call.called
    /\ density_method = "bbox_coverage"
    /\ frame_dimensions /= unknown_dimensions
    /\ density_call.before.called
    /\ added_inside_covered
    /\ pixels(boxes[Len(boxes)]) /= {}
    /\ density_call.score.num > 0
    /\ density_call.score = density_call.before.score

\* The row or column, of count many, that the doubled centre coordinate
\* falls in along a side of the given length: the first for a centre
\* before the side, the last for one at or past its end.
grid_index(center_doubled_at, length, count) ==
    IF center_doubled_at < 0 THEN 0
    ELSE IF center_doubled_at >= 2 * length THEN count - 1
    ELSE CHOOSE k \in 0..(count - 1) :
            /\ k * 2 * length <= center_doubled_at * count
            /\ center_doubled_at * count < (k + 1) * 2 * length

\* The cell a box belongs to.
expected_cell(box) ==
    <<grid_index(box[2] + box[4], frame_dimensions.height, grid_size[1]),
      grid_index(box[1] + box[3], frame_dimensions.width, grid_size[2])>>

\* The increments of all cells, summed.
total_increments(increments) ==
    sum([r \in 1..grid_size[1] |->
        sum([c \in 1..grid_size[2] |-> increments[<<r - 1, c - 1>>]])])

\* C28. Heatmap: with the frame dimensions known every box is counted in
\* exactly one cell, the one its centre falls in, a centre outside the
\* frame or on its far boundary in the first or last row or column, so
\* the increments sum to the number of boxes; every cell returned is
\* within [0, 1], the largest is exactly 1 when there is a box, and all
\* are 0 when there is none.
C28_Heatmap ==
    (heatmap.called /\ frame_dimensions /= unknown_dimensions) =>
        /\ \A cell \in GridCells :
            /\ heatmap.increments[cell]
               = Cardinality({i \in DOMAIN heatmap.boxes :
                                 expected_cell(heatmap.boxes[i]) = cell})
            /\ heatmap.cells[cell].den > 0
            /\ 0 <= heatmap.cells[cell].num
            /\ heatmap.cells[cell].num <= heatmap.cells[cell].den
            /\ heatmap.boxes = <<>> => heatmap.cells[cell].num = 0
        /\ total_increments(heatmap.increments) = Len(heatmap.boxes)
        /\ heatmap.boxes /= <<>>
           => \E cell \in GridCells :
                heatmap.cells[cell].num = heatmap.cells[cell].den

\* C28 witness: of three boxes one has its centre outside the frame, two
\* share a cell and the third's cell is returned as one half.
C28_Witness ==
    /\ heatmap.called
    /\ frame_dimensions /= unknown_dimensions
    /\ Len(heatmap.boxes) = 3
    /\ \E i \in DOMAIN heatmap.boxes :
        heatmap.boxes[i][1] + heatmap.boxes[i][3] < 0
    /\ \E cell \in GridCells :
        heatmap.cells[cell].num = 1 /\ heatmap.cells[cell].den = 2

\* ------------------------------------- properties of the video capture

\* The frames put on the queue so far, in the order the main loop gets
\* them: those processed, the one in its hands, those still queued.
enqueued ==
    received
    \o (IF main_loop.frame /= 0 THEN <<main_loop.frame>> ELSE <<>>)
    \o frame_queue

\* The queue holds 10 frames at most, and the frames put on it reach the
\* main loop in the order they were read, none twice.
queue_in_order ==
    /\ Len(frame_queue) <= 10
    /\ \A i \in DOMAIN enqueued : enqueued[i] \in 1..frames_read
    /\ \A i, j \in DOMAIN enqueued : i < j => enqueued[i] < enqueued[j]

\* A put on a full queue leaves the queue as it is and the capture thread
\* goes on to the next read; a put never waits.
drops_newest ==
    /\ [][(capture_put_nowait /\ Len(frame_queue) = 10)
            => (frame_queue' = frame_queue /\ capture_thread'.pc = "while")]_vars
    /\ [](capture_thread.pc = "put_nowait" => ENABLED capture_put_nowait)

\* C29 as stated. Bounded frame queue: at every point of every
\* interleaving of the capture thread and the main loop the queue holds
\* 10 frames at most, the frames enqueued reach the loop in capture order,
\* each once, none evicted, and frame_count equals the number of frames
\* enqueued.
C29_FrameCountIsEnqueued ==
    /\ queue_in_order
    /\ vp_frame_count = Len(enqueued)

\* C29. Bounded frame queue: the queue holds 10 frames at most; a put on a
\* full queue drops the frame just read and the capture thread goes on
\* without waiting; the frames enqueued reach the main loop in capture
\* order, each once, none evicted; and frame_count equals the number of
\* frames enqueued once the capture thread has counted its last put:
\* between the put and the count it is one less.
C29_BoundedQueue ==
    /\ [](/\ queue_in_order
          /\ vp_frame_count
             = Len(enqueued)
               - (IF capture_thread.pc = "frame_count" THEN 1 ELSE 0))
    /\ drops_newest

\* C29 witness: the queue is full, the main loop has processed frames, a
\* frame was dropped and the capture thread is about to read the next.
C29_Witness ==
    /\ Len(frame_queue) = 10
    /\ received /= <<>>
    /\ capture_thread.pc = "read"
    /\ frames_read > Len(enqueued)
    /\ vp_frame_count = Len(enqueued)

\* C30. Timeout versus end of stream: the main loop ends only when the
\* capture thread is no longer alive, and by then it has processed every
\* frame that was put on the queue: none remains queued.
C30_EndsOnlyAtEndOfStream ==
    main_loop.pc = "ended" =>
        /\ ~is_running
        /\ frame_queue = <<>>
        /\ Len(received) = vp_frame_count

\* ---------------------------------------- properties of a failed append

\* C37. log_data sets last_log_time to the clock reading of every due
\* call, whether the append then succeeds or fails; a call less than
\* log_interval after a failed one attempts no write, and a write only
\* ever adds rows of the call's own clock reading, so the record that
\* failed is never written later.
C37_StampedBeforeWrite ==
    [][log_data_call =>
        LET due == log_enabled /\ now - last_log_time >= log_interval
        IN  /\ due => (last_log_time' = now
                       /\ log_outcome' \in {"written", "failed"})
            /\ log_outcome' = "failed" => last_log_time' = now
            /\ (log_outcome = "failed" /\ now - last_log_time < log_interval)
               => (files' = files /\ log_outcome' = "not_due"
                   /\ last_log_time' = last_log_time)
            /\ \A r \in all_rows(files') \ all_rows(files) :
                r.timestamp = now]_vars

\* C37 witness: the last due call failed and set last_log_time, a later
\* call was not due, and no record of the failed call's clock reading was
\* persisted by this manager.
C37_Witness ==
    /\ log_outcome = "not_due"
    /\ log_fault /= "none"
    /\ last_log_time >= EpochStart
    /\ now > last_log_time
    /\ \A r \in all_rows(files) :
        ~(r.kind = "data" /\ r.timestamp = last_log_time
          /\ r.session = instances)

\* -------------------------------------------- properties of stop_capture

\* C35. stop_capture releases the capture device only after the capture
\* thread has finished its last read: once the device is released the
\* capture thread is not inside cap.read().
C35_ReleaseAfterLastRead ==
    video_processor.cap = "released" => capture_thread.pc /= "read"

\* C36. A consumer iterating get_frame_generator finishes once the frame
\* source has ended and the queue is drained: from then on the generator
\* eventually returns.
C36_GeneratorReturns ==
    (capture_thread.pc = "exited" /\ frame_queue = <<>>)
        ~> (main_loop.pc = "generator returned")

\* ------------------------------------------- properties of the detector

\* C40. Constructing a CrowdDetector with a Convex endpoint configured but
\* no pandal id completes: the constructor never ends in an exception.
C40_ConstructionCompletes ==
    detector.constructed /= "AttributeError"

\* The ways out of run after a successful start.
WaysOut ==
    {"end of stream", "quit key", "exception", "KeyboardInterrupt",
     "stop signal"}

C32_LoopSurvivesErrors ==
    run_log.exit /= "exception"

\* A frame without detections is being processed.
empty_frame ==
    /\ main_loop.pc = "process_frame"
    /\ analysis.person_count = 0
    /\ frame_log /= <<>>
    /\ frame_log[Len(frame_log)].person_count = 0

\* Without boxes the density score is 0 and every cell of the heatmap is
\* 0, whatever the frame dimensions and the density method.
blank_without_boxes ==
    \A dims \in {unknown_dimensions,
                 [width |-> FrameWidth, height |-> FrameHeight]},
       method \in {"bbox_coverage", "spatial_distribution"} :
        /\ calculate_density_score(<<>>, dims, method).num = 0
        /\ \A cell \in GridCells :
            generate_density_heatmap(<<>>, dims).cells[cell].num = 0

in_process_frame ==
    /\ main_loop.pc = "process_frame"
    /\ pc \in {"analyzed", "checked", "dispatch", "logged"}

\* C34. Per-frame ordering. While frame n is processed the histories end
\* with frame n's sample, and the smoothed values, trends and anomalies of
\* its results are those computed after the append; the crowd level handed
\* to the alert evaluation is classify of the smoothed count after frame
\* n's update; the alert evaluation of frame n has run at the frame's own
\* time before anything is logged for the frame, and the record logged for
\* frame n carries the alert level returned for frame n.
C34_FrameOrdering ==
    in_process_frame =>
        /\ count_history[Len(count_history)] = analysis.person_count
        /\ density_history[Len(density_history)] = analysis.density_score
        /\ time_history[Len(time_history)] = analysis.timestamp
        /\ analysis.timestamp = now
        /\ analysis.smoothed_count = smoothed_count
        /\ analysis.smoothed_density = smoothed_density
        /\ analysis.trends
           = calculate_trends(count_history, density_history, time_history)
        /\ analysis.anomalies
           = detect_anomalies(count_history, density_history,
                              analysis.person_count, analysis.density_score)
        /\ analysis.crowd_level
           = classify_crowd_level(alert_thresholds, smoothed_count)
        /\ pc = "analyzed" => run_log.logged.frame < detector.frame_count
        /\ pc /= "analyzed"
            => /\ analysis_results.crowd_level = analysis.crowd_level
               /\ analysis_results.anomalies = analysis.anomalies
               /\ current_time = analysis.timestamp
        /\ pc /= "logged" => run_log.logged.frame < detector.frame_count
        /\ (pc = "logged" /\ log_outcome = "written")
            => run_log.logged
               = [frame |-> detector.frame_count,
                  alert_level |-> alert_info.alert_level,
                  crowd_level |-> analysis.crowd_level]
        /\ (pc = "logged" /\ log_outcome /= "written")
            => run_log.logged.frame < detector.frame_count

\* C34 witness: the record of a frame was written with the alert the frame
\* triggered, and the level evaluated is neither the level of the frame's
\* raw count nor the level of the frame before.
C34_Witness ==
    /\ in_process_frame
    /\ pc = "logged"
    /\ log_outcome = "written"
    /\ alert_info.alert_triggered
    /\ run_log.logged.alert_level = alert_info.alert_level
    /\ Len(count_history) >= 2
    /\ analysis_results.crowd_level
       /= classify_crowd_level(alert_thresholds,
                               analysis.person_count * FixedPoint)
    /\ analysis_results.crowd_level
       /= classify_crowd_level(alert_thresholds,
              count_history[Len(count_history) - 1] * FixedPoint)

\* C38. While the detector is paused every frame dequeued is discarded:
\* the histories, the smoothed values, current_alert_level,
\* last_alert_time, last_log_time and last_image_save are unchanged, no
\* alert, log record or remote send is produced, and only the frame
\* counter advances; no frame is processed while paused, and once the
\* pause has ended the next frame is processed.
C38_PausedFrameDiscarded ==
    /\ [][(detector.paused /\ frames_left' = frames_left - 1)
          => /\ UNCHANGED <<count_history, density_history, time_history,
                            smoothed_count, smoothed_density, analysis,
                            frame_log, current_alert_level, last_alert_time,
                            last_log_time, last_image_save, alert_info,
                            files, pc>>
             /\ run_log'.sent = run_log.sent
             /\ run_log'.logged = run_log.logged
             /\ run_log'.fired = run_log.fired
             /\ detector'.frame_count = detector.frame_count + 1
             /\ detector'.paused = (run_log'.key /= "p")
             /\ main_loop'.pc = (IF run_log'.key = "q" THEN "finally"
                                 ELSE "get_frame")]_vars
    /\ [][detector.paused
          => UNCHANGED <<count_history, density_history, time_history,
                         smoothed_count, smoothed_density, analysis,
                         frame_log, last_log_time, last_image_save>>]_vars
    /\ []((main_loop.pc = "get_frame" /\ ~detector.paused
            /\ frames_left > 0)
           => (processes_next_frame /\ ~ENABLED run_paused_frame))

\* C38 witness: frames were discarded during a pause of a detector that
\* sends its data, the pause has ended and a later frame is being
\* processed.
C38_Witness ==
    /\ detector.frame_count > Len(frame_log)
    /\ detector.convex_http_endpoint
    /\ detector.pandal_id
    /\ run_log.sent = Len(frame_log) - 1
    /\ ~detector.paused
    /\ main_loop.pc = "process_frame"
    /\ pc = "analyzed"

\* The key 'r' is handled after a frame: reset_alert_state is called.
reset_step ==
    /\ main_loop.pc = "process_frame"
    /\ run_log'.key = "r"
    /\ run_log'.keys_left = run_log.keys_left - 1

\* C39. reset_alert_state sets current_alert_level to 'none' and clears
\* every cooldown timestamp, and leaves last_log_time, last_image_save and
\* the analyzer's histories and smoothed values unchanged; the timestamps
\* stay cleared until the next evaluation, which triggers when the crowd
\* level is high or critical or an anomaly flag is set, however recently
\* that kind fired.
C39_ResetClearsCooldowns ==
    /\ [][reset_step
          => /\ current_alert_level' = "none"
             /\ last_alert_time' = EmptyDict
             /\ UNCHANGED <<last_log_time, last_image_save, count_history,
                            density_history, time_history, smoothed_count,
                            smoothed_density>>]_vars
    /\ [][(last_alert_time = EmptyDict /\ pc = "analyzed")
          => last_alert_time' = EmptyDict
             \/ pc' \in {"checked", "dispatch"}]_vars
    /\ [][(last_alert_time = EmptyDict /\ pc /= "analyzed")
          => last_alert_time' = EmptyDict]_vars
    /\ [][(/\ last_alert_time = EmptyDict
           /\ pc = "analyzed"
           /\ pc' \in {"checked", "dispatch"}
           /\ \/ analysis.crowd_level \in {"high", "critical"}
              \/ \E k \in DOMAIN analysis.anomalies : analysis.anomalies[k])
          => /\ pc' = "dispatch"
             /\ alert_info'.alert_triggered
             /\ alert_info'.alert_level
                = (IF analysis.crowd_level \in {"high", "critical"}
                   THEN analysis.crowd_level ELSE "anomaly")]_vars

\* C39 witness: an alert fired, the state was reset with 'r' after that
\* frame, and the evaluation of the next frame processed fired an alert of
\* the same level well within alert_cooldown of the first.
C39_Witness ==
    /\ run_log.key = "r"
    /\ main_loop.pc = "process_frame"
    /\ pc = "dispatch"
    /\ alert_info.alert_triggered
    /\ run_log.fired.frame > 0
    /\ run_log.fired.frame < detector.frame_count
    /\ run_log.fired.alert_level = alert_info.alert_level
    /\ current_time - run_log.fired.time < alert_cooldown

====
